---------------------------- MODULE Spec2Model ----------------------------
(***************************************************************************)
(* Model of the clipboard subsystem of Agent-clipboard:                    *)
(*   clipboard.py  ClipboardState, ToolResultStore, extraction, copy       *)
(*   template.py   render_template, execute_template_invoke                *)
(*                                                                         *)
(* Python strings are modelled as sequences of one-character strings, so   *)
(* that rsplit, isdigit, int(), strip() and the placeholder regex are      *)
(* computed on characters.  Python values are tagged records:              *)
(*   [t |-> "str", s |-> chars]     [t |-> "int", n |-> Int]               *)
(*   [t |-> "bool", b |-> BOOLEAN]  [t |-> "none"]                         *)
(*   [t |-> "list", items |-> Seq(value)]                                  *)
(*   [t |-> "dict", items |-> Seq([k |-> chars, v |-> value])]             *)
(* A Python dict is a sequence of [k, v] pairs in insertion order.         *)
(***************************************************************************)
EXTENDS Integers, Sequences, FiniteSets, TLC

VARIABLES
    by_tool,        \* ToolResultStore._by_tool : tool name -> list of entries
    last,           \* ToolResultStore._last    : entry or None
    slots,          \* ClipboardState._slots
    bytes_stored,   \* ClipboardState._bytes_stored
    usage_count,    \* ClipboardState._usage_count
    ret,            \* the last operation: its name, arguments and outcome
    pre,            \* history: the object state the last operation started from
    hist,           \* history: every store call so far, in call order
    lookups,        \* history: successful placeholder lookups per slot since its last set
    live,           \* history: the slots set and not cleared since, by name or by a
                    \* clear of all slots, each with the value last set
    tool_calls,     \* ClipboardAgent.tool_calls
    run             \* ClipboardAgent.run: where the loop stands and its locals

vars == <<by_tool, last, slots, bytes_stored, usage_count, ret, pre, hist, lookups, live,
          tool_calls, run>>

storeVars == <<by_tool, last, hist>>
clipVars  == <<slots, bytes_stored, usage_count, lookups, live>>

----------------------------------------------------------------------------
(* Bounds of the model *)

\* store calls in one run
MaxStores == 3
\* highest useCount a slot is driven to
MaxUse == 2

----------------------------------------------------------------------------
(* Characters and strings *)

\* U+00B2 SUPERSCRIPT TWO: str.isdigit() is True, int() raises ValueError
SUP2 == "sup2"
\* U+FF11 FULLWIDTH DIGIT ONE: str.isdigit() is True, int() reads it as 1
FW1 == "fw1"

AsciiDigits == <<"0", "1", "2", "3", "4", "5", "6", "7", "8", "9">>

Letters == {"a", "b", "c", "d", "e", "f", "g", "h", "i", "j", "k", "l", "m",
            "n", "o", "p", "q", "r", "s", "t", "u", "v", "w", "x", "y", "z",
            "A", "B", "C", "D", "E", "F", "G", "H", "I", "J", "K", "L", "M",
            "N", "O", "P", "Q", "R", "S", "T", "U", "V", "W", "X", "Y", "Z"}

Range(f) == {f[i] : i \in DOMAIN f}

DigitChars == Range(AsciiDigits) \cup {SUP2, FW1}
WordChars == Letters \cup DigitChars \cup {"_"}
SpaceChars == {" ", "\n", "\t"}

\* the decimal value of a character int() accepts, -1 for any other
DigitValue(c) ==
    IF c = FW1 THEN 1
    ELSE IF \E i \in 1..10 : AsciiDigits[i] = c
         THEN (CHOOSE i \in 1..10 : AsciiDigits[i] = c) - 1
         ELSE -1

\* str.isdigit() on one character
CharIsDigit(c) == c \in DigitChars

\* str.isdigit(): non-empty and every character a digit character
IsDigitStr(s) == Len(s) > 0 /\ \A i \in 1..Len(s) : CharIsDigit(s[i])

\* \w that also takes "-" for a word character
IsWordCharOrDash(c) == c \in WordChars \cup {"-"}

\* regex \w on one character
IsWordChar(c) == c \in WordChars

\* str.strip() whitespace
IsSpace(c) == c \in SpaceChars

RECURSIVE FormatNat(_)
\* the decimal text of a natural number, as an f-string or str() writes it
FormatNat(n) ==
    IF n < 10 THEN <<AsciiDigits[n + 1]>>
    ELSE FormatNat(n \div 10) \o <<AsciiDigits[(n % 10) + 1]>>

RECURSIVE ParseNat(_)
\* int() on a string of characters each having a DigitValue >= 0
ParseNat(s) ==
    IF Len(s) = 0 THEN 0
    ELSE 10 * ParseNat(SubSeq(s, 1, Len(s) - 1)) + DigitValue(s[Len(s)])

\* whether int(s) returns for a string that passed isdigit()
IntAccepts(s) == \A i \in 1..Len(s) : DigitValue(s[i]) >= 0

\* the index of the rightmost c in s, 0 when s holds none
LastIndexOf(s, c) ==
    IF \E i \in 1..Len(s) : s[i] = c
    THEN CHOOSE i \in 1..Len(s) : s[i] = c /\ \A j \in (i + 1)..Len(s) : s[j] # c
    ELSE 0

----------------------------------------------------------------------------
(* Python values *)

PyNone == [t |-> "none"]
PyStr(s) == [t |-> "str", s |-> s]
PyInt(n) == [t |-> "int", n |-> n]
PyBool(b) == [t |-> "bool", b |-> b]
PyList(items) == [t |-> "list", items |-> items]
PyDict(items) == [t |-> "dict", items |-> items]

\* outcome of a call: a returned value, or a raised exception
Ok(v) == [status |-> "ok", value |-> v]
Raise(kind, info) == [status |-> kind, value |-> PyNone, info |-> info]

----------------------------------------------------------------------------
(* Python dict, insertion ordered *)

DictHas(d, k) == \E i \in 1..Len(d) : d[i].k = k
DictIndex(d, k) == CHOOSE i \in 1..Len(d) : d[i].k = k
DictGet(d, k) == d[DictIndex(d, k)].v
\* d[k] = v : an existing key keeps its position, a new key goes last
DictPut(d, k, v) ==
    IF DictHas(d, k)
    THEN [d EXCEPT ![DictIndex(d, k)] = [k |-> k, v |-> v]]
    ELSE Append(d, [k |-> k, v |-> v])
\* d.pop(k, None)
DictPop(d, k) ==
    IF DictHas(d, k)
    THEN SubSeq(d, 1, DictIndex(d, k) - 1) \o SubSeq(d, DictIndex(d, k) + 1, Len(d))
    ELSE d
DictKeys(d) == [i \in 1..Len(d) |-> d[i].k]

RECURSIVE SumSeq(_)
\* sum(ns)
SumSeq(ns) == IF Len(ns) = 0 THEN 0 ELSE ns[1] + SumSeq(Tail(ns))

----------------------------------------------------------------------------
(* ToolResultStore (clipboard.py) *)

\* the reference "last"
LastRef == <<"l", "a", "s", "t">>

\* entry = {"tool": tool_name, "result": result}
Entry(tool_name, result) == [tool |-> tool_name, result |-> result]

\* store with the new entry put first in the tool's list
StoreByToolPrepend(bt, tool_name, entry) ==
    IF DictHas(bt, tool_name)
    THEN DictPut(bt, tool_name, <<entry>> \o DictGet(bt, tool_name))
    ELSE DictPut(bt, tool_name, <<entry>>)

\* store: _by_tool after "if tool_name not in ...: ... = []" and the append
StoreByTool(bt, tool_name, entry) ==
    IF DictHas(bt, tool_name)
    THEN DictPut(bt, tool_name, Append(DictGet(bt, tool_name), entry))
    ELSE DictPut(bt, tool_name, <<entry>>)

\* store: _last keeps the first entry ever stored
StoreLastFirstOnly(lst, entry) == IF lst = PyNone THEN entry ELSE lst

\* store: self._last = entry
StoreLast(lst, entry) == entry

\* store: idx = len(self._by_tool[tool_name]) - 1, the ordinal it logs
StoreIdx(bt, tool_name) == Len(DictGet(bt, tool_name)) - 1

\* store: the method has no return statement (-> None)
StoreReturn(idx) == PyNone

\* results[idx] reading one position too far
ListIndexOffByOne(results, idx) ==
    IF 0 <= idx /\ idx + 1 < Len(results) THEN Ok(results[idx + 2])
    ELSE IF idx < 0 /\ -idx <= Len(results) THEN Ok(results[Len(results) + idx + 1])
    ELSE Raise("IndexError", <<>>)

\* results[idx] with a negative idx counting from the front
ListIndexNegativeFromFront(results, idx) ==
    IF 0 <= idx /\ idx < Len(results) THEN Ok(results[idx + 1])
    ELSE IF idx < 0 /\ -idx <= Len(results) THEN Ok(results[-idx])
    ELSE Raise("IndexError", <<>>)

\* results[idx] for a Python list and an int, negative idx counting from the end
ListIndex(results, idx) ==
    IF 0 <= idx /\ idx < Len(results) THEN Ok(results[idx + 1])
    ELSE IF idx < 0 /\ -idx <= Len(results) THEN Ok(results[Len(results) + idx + 1])
    ELSE Raise("IndexError", <<>>)

\* get: the lookup that follows the parse of the reference
GetByName(bt, tool_name, idx) ==
    IF ~DictHas(bt, tool_name)
    THEN Raise("KeyError", DictKeys(bt))
    ELSE LET r == ListIndex(DictGet(bt, tool_name), idx)
         IN  IF r.status = "IndexError" THEN Raise("KeyError", <<>>) ELSE r

\* ToolResultStore.get(source)
ResultStoreGet(bt, lst, source) ==
    IF source = LastRef
    THEN IF lst = PyNone THEN Raise("KeyError", <<>>) ELSE Ok(lst)
    ELSE LET c == LastIndexOf(source, ":")
         IN  IF c > 0
             THEN \* tool_name, idx_str = source.rsplit(":", 1)
                  LET tool_name == SubSeq(source, 1, c - 1)
                      idx_str == SubSeq(source, c + 1, Len(source))
                  IN  IF IsDigitStr(idx_str)
                      THEN \* idx = int(idx_str), which raises ValueError on a digit
                           \* character that is no decimal digit
                           IF IntAccepts(idx_str)
                           THEN GetByName(bt, tool_name, ParseNat(idx_str))
                           ELSE Raise("ValueError", <<>>)
                      ELSE Raise("KeyError", <<>>)
             ELSE GetByName(bt, source, -1)

RECURSIVE SourcesOf(_, _, _)
\* list_sources: the inner loop, f"{tool_name}:{i}" for i in range(i, n)
SourcesOf(tool_name, i, n) ==
    IF i >= n THEN <<>>
    ELSE <<tool_name \o <<":">> \o FormatNat(i)>> \o SourcesOf(tool_name, i + 1, n)

RECURSIVE ListSourcesFrom(_, _)
\* list_sources: the outer loop over _by_tool.items() from position p
ListSourcesFrom(bt, p) ==
    IF p > Len(bt) THEN <<>>
    ELSE (IF Len(bt[p].v) = 1
          THEN <<bt[p].k>>
          ELSE SourcesOf(bt[p].k, 0, Len(bt[p].v)))
         \o ListSourcesFrom(bt, p + 1)

\* list_sources that always writes the indexed form
ListSourcesAlwaysIndexed(bt) ==
    LET F[p \in 1..(Len(bt) + 1)] ==
            IF p > Len(bt) THEN <<>>
            ELSE SourcesOf(bt[p].k, 0, Len(bt[p].v)) \o F[p + 1]
    IN  F[1]

\* ToolResultStore.list_sources()
ListSources(bt) == ListSourcesFrom(bt, 1)

----------------------------------------------------------------------------
(* str() and repr() of a Python value *)

\* one character of a string as repr() writes it between single quotes
ReprChar(c) ==
    IF c = "\n" THEN <<"\\", "n">>
    ELSE IF c = "\t" THEN <<"\\", "t">>
    ELSE IF c = "\\" THEN <<"\\", "\\">>
    ELSE IF c = "'" THEN <<"\\", "'">>
    ELSE <<c>>

RECURSIVE ReprChars(_)
ReprChars(s) == IF Len(s) = 0 THEN <<>> ELSE ReprChar(s[1]) \o ReprChars(Tail(s))

\* repr() of a str that holds no double quote
ReprStr(s) == <<"'">> \o ReprChars(s) \o <<"'">>

\* str() of an int
IntText(n) == IF n < 0 THEN <<"-">> \o FormatNat(-n) ELSE FormatNat(n)

RECURSIVE PyRepr(_)
RECURSIVE ReprItems(_, _)
RECURSIVE ReprPairs(_, _)

\* ", ".join(repr(x) for x in items[p:])
ReprItems(items, p) ==
    IF p > Len(items) THEN <<>>
    ELSE PyRepr(items[p])
         \o (IF p < Len(items) THEN <<",", " ">> ELSE <<>>)
         \o ReprItems(items, p + 1)

\* ", ".join(repr(k) + ": " + repr(v) for k, v in items[p:])
ReprPairs(items, p) ==
    IF p > Len(items) THEN <<>>
    ELSE ReprStr(items[p].k) \o <<":", " ">> \o PyRepr(items[p].v)
         \o (IF p < Len(items) THEN <<",", " ">> ELSE <<>>)
         \o ReprPairs(items, p + 1)

\* repr(v)
PyRepr(v) ==
    CASE v.t = "str"  -> ReprStr(v.s)
      [] v.t = "int"  -> IntText(v.n)
      [] v.t = "bool" -> IF v.b THEN <<"T", "r", "u", "e">>
                                ELSE <<"F", "a", "l", "s", "e">>
      [] v.t = "none" -> <<"N", "o", "n", "e">>
      [] v.t = "list" -> <<"[">> \o ReprItems(v.items, 1) \o <<"]">>
      [] v.t = "dict" -> <<"{">> \o ReprPairs(v.items, 1) \o <<"}">>

\* str(v): a str is its own text, any other value is written as repr(v)
TextOf(v) == IF v.t = "str" THEN v.s ELSE PyRepr(v)

----------------------------------------------------------------------------
(* ClipboardState (clipboard.py) *)

\* the size set() records
SizeOf(value) == IF value.t = "str" THEN Len(value.s) ELSE Len(TextOf(value))

\* set that leaves the use count of an existing slot as it is
ClipSetKeepingCount(cb, slot, value) ==
    [slots |-> DictPut(cb.slots, slot, value),
     bytes_stored |-> DictPut(cb.bytes_stored, slot, SizeOf(value)),
     usage_count |-> IF DictHas(cb.usage_count, slot) THEN cb.usage_count
                     ELSE DictPut(cb.usage_count, slot, 0)]

\* ClipboardState.set(slot, value) on cb = [slots, bytes_stored, usage_count]
ClipSet(cb, slot, value) ==
    [slots |-> DictPut(cb.slots, slot, value),
     bytes_stored |-> DictPut(cb.bytes_stored, slot, SizeOf(value)),
     usage_count |-> DictPut(cb.usage_count, slot, 0)]

\* ClipboardState.get(slot); the KeyError message quotes the slot asked for
\* and lists the names of the slots present
ClipGet(sl, slot) ==
    IF ~DictHas(sl, slot)
    THEN Raise("KeyError", [slot |-> slot, available |-> DictKeys(sl)])
    ELSE Ok(DictGet(sl, slot))

\* ClipboardState.has(slot)
ClipHas(sl, slot) == DictHas(sl, slot)

\* truth value of the argument of clear: None and "" are false
Truthy(arg) == arg.t = "str" /\ Len(arg.s) > 0

\* ClipboardState.clear(slot): _slots afterwards
ClipClear(sl, arg) == IF Truthy(arg) THEN DictPop(sl, arg.s) ELSE <<>>

\* record_usage that counts a use twice
RecordUsageTwice(usage, slot) ==
    IF DictHas(usage, slot)
    THEN DictPut(usage, slot, DictGet(usage, slot) + 2)
    ELSE usage

\* ClipboardState.record_usage(slot): _usage_count afterwards
RecordUsage(usage, slot) ==
    IF DictHas(usage, slot)
    THEN DictPut(usage, slot, DictGet(usage, slot) + 1)
    ELSE usage

\* chars_per_token
CharsPerToken == 4

\* the estimate that charges every slot one reference, used or not
EstimateChargingEverySlot(cb) ==
    LET uc == cb.usage_count
    IN  [t |-> "estimate",
         bytes_stored |-> SumSeq([i \in 1..Len(cb.bytes_stored) |-> cb.bytes_stored[i].v]),
         bytes_substituted |-> 0,
         estimated_tokens_saved |-> 0,
         reference_overhead_tokens |->
             SumSeq([i \in 1..Len(uc) |-> 4 + Len(uc[i].k)]) \div CharsPerToken,
         net_tokens_saved |->
             0 - (SumSeq([i \in 1..Len(uc) |-> 4 + Len(uc[i].k)]) \div CharsPerToken),
         slots_usage |-> uc,
         slots_bytes |-> cb.bytes_stored]

\* ClipboardState.get_token_savings_estimate() on cb = [slots, bytes_stored,
\* usage_count]
GetTokenSavingsEstimate(cb) ==
    LET bs == cb.bytes_stored
        uc == cb.usage_count
        total_bytes_stored == SumSeq([i \in 1..Len(bs) |-> bs[i].v])
        \* self._bytes_stored.get(slot, 0)
        BytesOf(slot) == IF DictHas(bs, slot) THEN DictGet(bs, slot) ELSE 0
        bytes_substituted ==
            SumSeq([i \in 1..Len(uc) |-> BytesOf(uc[i].k) * uc[i].v])
        estimated_tokens_saved == bytes_substituted \div CharsPerToken
        reference_overhead ==
            SumSeq([i \in 1..Len(uc) |-> (4 + Len(uc[i].k)) * uc[i].v])
        reference_tokens == reference_overhead \div CharsPerToken
    IN  [t |-> "estimate",
         bytes_stored |-> total_bytes_stored,
         bytes_substituted |-> bytes_substituted,
         estimated_tokens_saved |-> estimated_tokens_saved,
         reference_overhead_tokens |-> reference_tokens,
         net_tokens_saved |-> estimated_tokens_saved - reference_tokens,
         slots_usage |-> uc,
         slots_bytes |-> bs]

----------------------------------------------------------------------------
(* Extraction and execute_copy (clipboard.py) *)

\* the keys of the dicts execute_copy and _get_text_content read and write
CopyKey ==
    [slot |-> <<"s", "l", "o", "t">>,
     source |-> <<"s", "o", "u", "r", "c", "e">>,
     json_path |-> <<"j", "s", "o", "n", "_", "p", "a", "t", "h">>,
     pattern |-> <<"p", "a", "t", "t", "e", "r", "n">>,
     start_line |-> <<"s", "t", "a", "r", "t", "_", "l", "i", "n", "e">>,
     end_line |-> <<"e", "n", "d", "_", "l", "i", "n", "e">>,
     content |-> <<"c", "o", "n", "t", "e", "n", "t">>,
     text |-> <<"t", "e", "x", "t">>,
     data |-> <<"d", "a", "t", "a">>,
     success |-> <<"s", "u", "c", "c", "e", "s", "s">>,
     method |-> <<"m", "e", "t", "h", "o", "d">>,
     bytes_extracted |->
         <<"b", "y", "t", "e", "s", "_", "e", "x", "t", "r", "a", "c", "t", "e", "d">>,
     preview |-> <<"p", "r", "e", "v", "i", "e", "w">>]

\* the method texts of execute_copy
MethodJsonPath(path) == <<"j", "s", "o", "n", "_", "p", "a", "t", "h", "=">> \o path
MethodPattern(pattern) ==
    <<"p", "a", "t", "t", "e", "r", "n", "=">> \o SubSeq(pattern, 1, IF Len(pattern) < 50 THEN Len(pattern) ELSE 50)
        \o <<".", ".", ".">>
MethodLines(start, end) == <<"l", "i", "n", "e", "s", " ">> \o TextOf(start) \o <<"-">> \o TextOf(end)
MethodFull == <<"f", "u", "l", "l", " ", "c", "o", "n", "t", "e", "n", "t">>

\* the longest preview execute_copy returns uncut
PreviewLen == 200

\* _truncate(value, max_len)
Truncate(value, max_len) ==
    LET s == IF value.t = "str" THEN value.s ELSE PyRepr(value)
    IN  IF Len(s) > max_len THEN SubSeq(s, 1, max_len) \o <<".", ".", ".">> ELSE s

\* key in result, for result a dict or a list
Contains(result, key) ==
    IF result.t = "dict" THEN DictHas(result.items, key)
    ELSE \E i \in 1..Len(result.items) : result.items[i] = PyStr(key)

\* _get_text_content that looks for "text" before "content"
GetTextContentTextFirst(result) ==
    IF result.t = "str" THEN Ok(result)
    ELSE IF result.t \notin {"dict", "list"} THEN Raise("TypeError", <<>>)
    ELSE IF \E key \in {CopyKey.content, CopyKey.text, CopyKey.data} :
                Contains(result, key)
    THEN IF result.t = "list" THEN Raise("TypeError", <<>>)
         ELSE LET key == IF Contains(result, CopyKey.text) THEN CopyKey.text
                         ELSE IF Contains(result, CopyKey.content) THEN CopyKey.content
                         ELSE CopyKey.data
              IN  Ok(PyStr(TextOf(DictGet(result.items, key))))
    ELSE Ok(PyStr(TextOf(result)))

\* _get_text_content(result): "x in result" is a TypeError for a number, a
\* boolean or None, and result["content"] is one for a list
GetTextContent(result) ==
    IF result.t = "str" THEN Ok(result)
    ELSE IF result.t \notin {"dict", "list"} THEN Raise("TypeError", <<>>)
    ELSE IF \E key \in {CopyKey.content, CopyKey.text, CopyKey.data} : Contains(result, key)
    THEN IF result.t = "list" THEN Raise("TypeError", <<>>)
         ELSE LET key == IF Contains(result, CopyKey.content) THEN CopyKey.content
                         ELSE IF Contains(result, CopyKey.text) THEN CopyKey.text
                         ELSE CopyKey.data
              IN  Ok(PyStr(TextOf(DictGet(result.items, key))))
    ELSE Ok(PyStr(TextOf(result)))

\* _extract_by_pattern(text, pattern) for a pattern of letters, digits, "_"
\* and spaces, which matches itself: re.search finds the first occurrence and
\* group(0) is the text matched
ExtractByPattern(text, pattern) ==
    LET found == {p \in 1..(Len(text) - Len(pattern) + 1) :
                     SubSeq(text, p, p + Len(pattern) - 1) = pattern}
    IN  IF found = {} THEN Raise("ValueError", <<>>)
        ELSE LET p == CHOOSE p1 \in found : \A p2 \in found : p1 <= p2
             IN  Ok(PyStr(SubSeq(text, p, p + Len(pattern) - 1)))


\* text.split(c): the pieces between the occurrences of the character c
Split(text, c) ==
    LET b == {i \in 1..Len(text) : text[i] = c}
        n == Cardinality(b)
        pos(k) == IF k = 0 THEN 0
                  ELSE IF k = n + 1 THEN Len(text) + 1
                  ELSE CHOOSE i \in b : Cardinality({j \in b : j < i}) = k - 1
    IN  [k \in 1..(n + 1) |-> SubSeq(text, pos(k - 1) + 1, pos(k) - 1)]

RECURSIVE Join(_, _)
\* c.join(pieces)
Join(pieces, c) ==
    IF Len(pieces) = 0 THEN <<>>
    ELSE IF Len(pieces) = 1 THEN pieces[1]
    ELSE pieces[1] \o <<c>> \o Join(Tail(pieces), c)

\* items[a:b]: a negative bound counts from the end, and each bound is
\* brought into 0..len(items)
Slice(items, a, b) ==
    LET n == Len(items)
        Bound(i) == IF i < 0 THEN (IF n + i < 0 THEN 0 ELSE n + i)
                    ELSE IF i > n THEN n ELSE i
    IN  SubSeq(items, Bound(a) + 1, Bound(b))

\* _extract_by_lines(text, start, end) for int start and end
ExtractByLines(text, start, end) ==
    LET lines == Split(text, "\n")
        start_idx == IF start - 1 > 0 THEN start - 1 ELSE 0
        end_idx == IF Len(lines) < end THEN Len(lines) ELSE end
    IN  Ok(PyStr(Join(Slice(lines, start_idx, end_idx), "\n")))

RECURSIVE WalkPath(_, _, _)
\* the loop of _extract_by_json_path from part p on
WalkPath(current, parts, p) ==
    IF p > Len(parts) THEN Ok(current)
    ELSE IF current.t = "dict" /\ DictHas(current.items, parts[p])
    THEN WalkPath(DictGet(current.items, parts[p]), parts, p + 1)
    ELSE IF current.t = "list" /\ IsDigitStr(parts[p])
    THEN IF ~IntAccepts(parts[p]) THEN Raise("ValueError", <<>>)
         ELSE LET r == ListIndex(current.items, ParseNat(parts[p]))
              IN  IF r.status # "ok" THEN r ELSE WalkPath(r.value, parts, p + 1)
    ELSE Raise("KeyError", [part |-> parts[p]])

\* _extract_by_json_path(result, path)
ExtractByJsonPath(result, path) == WalkPath(result, Split(path, "."), 1)

\* the choice of the extraction method that tries the pattern before the path
ExtractPatternFirst(result, args) ==
    IF DictHas(args, CopyKey.pattern)
    THEN LET text == GetTextContent(result)
         IN  [out |-> IF text.status # "ok" THEN text
                      ELSE ExtractByPattern(text.value.s, DictGet(args, CopyKey.pattern).s),
              method |-> MethodPattern(DictGet(args, CopyKey.pattern).s)]
    ELSE IF DictHas(args, CopyKey.json_path)
    THEN [out |-> ExtractByJsonPath(result, DictGet(args, CopyKey.json_path).s),
          method |-> MethodJsonPath(DictGet(args, CopyKey.json_path).s)]
    ELSE [out |-> GetTextContent(result), method |-> MethodFull]

\* execute_copy: the choice of the extraction method by the fields of args
Extract(result, args) ==
    IF DictHas(args, CopyKey.json_path)
    THEN [out |-> ExtractByJsonPath(result, DictGet(args, CopyKey.json_path).s),
          method |-> MethodJsonPath(DictGet(args, CopyKey.json_path).s)]
    ELSE IF DictHas(args, CopyKey.pattern)
    THEN LET text == GetTextContent(result)
         IN  [out |-> IF text.status # "ok" THEN text
                      ELSE ExtractByPattern(text.value.s, DictGet(args, CopyKey.pattern).s),
              method |-> MethodPattern(DictGet(args, CopyKey.pattern).s)]
    ELSE IF DictHas(args, CopyKey.start_line) /\ DictHas(args, CopyKey.end_line)
    THEN LET text == GetTextContent(result)
         IN  [out |-> IF text.status # "ok" THEN text
                      ELSE ExtractByLines(text.value.s,
                                          DictGet(args, CopyKey.start_line).n,
                                          DictGet(args, CopyKey.end_line).n),
              method |-> MethodLines(DictGet(args, CopyKey.start_line),
                                     DictGet(args, CopyKey.end_line))]
    ELSE [out |-> GetTextContent(result), method |-> MethodFull]

\* execute_copy writing the slot, with the full text of the source, before
\* it extracts
ExecuteCopySlotFirst(cb, bt, lst, args) ==
    IF ~DictHas(args, CopyKey.slot) THEN [out |-> Raise("KeyError", [key |-> CopyKey.slot]), cb |-> cb]
    ELSE IF ~DictHas(args, CopyKey.source)
    THEN [out |-> Raise("KeyError", [key |-> CopyKey.source]), cb |-> cb]
    ELSE LET slot == DictGet(args, CopyKey.slot)
             source_ref == DictGet(args, CopyKey.source)
             source == ResultStoreGet(bt, lst, source_ref.s)
         IN  IF source.status # "ok" THEN [out |-> source, cb |-> cb]
             ELSE LET x == Extract(source.value.result, args)
                      first == ClipSet(cb, slot.s, GetTextContent(source.value.result).value)
                  IN  IF x.out.status # "ok" THEN [out |-> x.out, cb |-> first]
                      ELSE [out |-> Ok(PyDict(<<
                                [k |-> CopyKey.success, v |-> PyBool(TRUE)],
                                [k |-> CopyKey.slot, v |-> slot],
                                [k |-> CopyKey.source, v |-> source_ref],
                                [k |-> CopyKey.method, v |-> PyStr(x.method)],
                                [k |-> CopyKey.bytes_extracted, v |-> PyInt(SizeOf(x.out.value))],
                                [k |-> CopyKey.preview,
                                 v |-> PyStr(Truncate(x.out.value, PreviewLen))]>>)),
                            cb |-> ClipSet(first, slot.s, x.out.value)]

\* execute_copy(clipboard, result_store, args) on the clipboard cb and the
\* store (bt, lst), args being the items of the dict: the outcome and the
\* clipboard afterwards
ExecuteCopy(cb, bt, lst, args) ==
    IF ~DictHas(args, CopyKey.slot) THEN [out |-> Raise("KeyError", [key |-> CopyKey.slot]), cb |-> cb]
    ELSE IF ~DictHas(args, CopyKey.source)
    THEN [out |-> Raise("KeyError", [key |-> CopyKey.source]), cb |-> cb]
    ELSE LET slot == DictGet(args, CopyKey.slot)
             source_ref == DictGet(args, CopyKey.source)
             source == ResultStoreGet(bt, lst, source_ref.s)
         IN  IF source.status # "ok" THEN [out |-> source, cb |-> cb]
             ELSE LET x == Extract(source.value.result, args)
                  IN  IF x.out.status # "ok" THEN [out |-> x.out, cb |-> cb]
                      ELSE [out |-> Ok(PyDict(<<
                                [k |-> CopyKey.success, v |-> PyBool(TRUE)],
                                [k |-> CopyKey.slot, v |-> slot],
                                [k |-> CopyKey.source, v |-> source_ref],
                                [k |-> CopyKey.method, v |-> PyStr(x.method)],
                                [k |-> CopyKey.bytes_extracted, v |-> PyInt(SizeOf(x.out.value))],
                                [k |-> CopyKey.preview,
                                 v |-> PyStr(Truncate(x.out.value, PreviewLen))]>>)),
                            cb |-> ClipSet(cb, slot.s, x.out.value)]

----------------------------------------------------------------------------
(* render_template (template.py) *)

\* str.strip(): the first and last positions that hold no whitespace
StripFirst(s) ==
    IF \E i \in 1..Len(s) : ~IsSpace(s[i])
    THEN CHOOSE i \in 1..Len(s) : ~IsSpace(s[i]) /\ \A j \in 1..(i - 1) : IsSpace(s[j])
    ELSE 1
StripLast(s) ==
    IF \E i \in 1..Len(s) : ~IsSpace(s[i])
    THEN CHOOSE i \in 1..Len(s) :
             ~IsSpace(s[i]) /\ \A j \in (i + 1)..Len(s) : IsSpace(s[j])
    ELSE 0

\* template.strip()
Strip(s) == SubSeq(s, StripFirst(s), StripLast(s))

\* the length of the run of \w characters of s that starts at position p
WordRun(s, p) ==
    IF p > Len(s) \/ ~IsWordChar(s[p]) THEN 0
    ELSE LET stop == IF \E q \in p..Len(s) : ~IsWordChar(s[q])
                     THEN CHOOSE q \in p..Len(s) :
                              ~IsWordChar(s[q]) /\ \A r \in p..(q - 1) : IsWordChar(s[r])
                     ELSE Len(s) + 1
         IN  stop - p

\* SLOT_PATTERN matched at position p of s: the length of group 1, 0 for no
\* match.  \w+ is greedy and "}" is no \w, so group 1 is the whole word run.
MatchAt(s, p) ==
    IF p + 1 <= Len(s) /\ s[p] = "{" /\ s[p + 1] = "{"
    THEN LET n == WordRun(s, p + 2)
         IN  IF /\ n > 0 /\ p + n + 3 <= Len(s)
                /\ s[p + n + 2] = "}" /\ s[p + n + 3] = "}"
             THEN n ELSE 0
    ELSE 0

\* SLOT_PATTERN.fullmatch(s)
FullMatch(s) == MatchAt(s, 1) > 0 /\ MatchAt(s, 1) + 4 = Len(s)

\* the state a render threads through: the clipboard it reads, the usage
\* counts it updates, and (history) the slots it looked up successfully
RenderState(sl, usage) == [slots |-> sl, usage_count |-> usage, looked |-> <<>>]

\* value = clipboard.get(slot_name); clipboard.record_usage(slot_name)
Lookup(st, slot_name) ==
    LET g == ClipGet(st.slots, slot_name)
    IN  IF g.status # "ok" THEN [out |-> g, st |-> st]
        ELSE [out |-> g,
              st |-> [st EXCEPT !.usage_count = RecordUsage(st.usage_count, slot_name),
                                !.looked = Append(st.looked, slot_name)]]

RECURSIVE SubFrom(_, _, _, _)
\* SLOT_PATTERN.sub(replace_slot, template) that replaces the first match only
SubFirstOnly(s, p, acc, st) ==
    IF p > Len(s) THEN [out |-> Ok(PyStr(acc)), st |-> st]
    ELSE LET n == MatchAt(s, p)
         IN  IF n = 0 THEN SubFrom(s, p + 1, Append(acc, s[p]), st)
             ELSE LET l == Lookup(st, SubSeq(s, p + 2, p + n + 1))
                  IN  IF l.out.status # "ok" THEN l
                      ELSE SubFrom(s, Len(s) + 1,
                                   acc \o TextOf(l.out.value)
                                       \o SubSeq(s, p + n + 4, Len(s)), l.st)

\* SLOT_PATTERN.sub(replace_slot, template): the scan from position p, acc
\* being the text written so far
SubFrom(s, p, acc, st) ==
    IF p > Len(s) THEN [out |-> Ok(PyStr(acc)), st |-> st]
    ELSE LET n == MatchAt(s, p)
         IN  IF n = 0 THEN SubFrom(s, p + 1, Append(acc, s[p]), st)
             ELSE LET l == Lookup(st, SubSeq(s, p + 2, p + n + 1))
                  IN  IF l.out.status # "ok" THEN l
                      ELSE SubFrom(s, p + n + 4, acc \o TextOf(l.out.value), l.st)

\* the str branch that returns str(value) for a full match too
RenderStrNoTypePreservation(s, st) == SubFrom(s, 1, <<>>, st)

\* the str branch rendering once more what the first pass gave
RenderStrExpandingAgain(s, st) ==
    LET stripped == Strip(s)
        r == IF FullMatch(stripped)
             THEN Lookup(st, SubSeq(stripped, 3, Len(stripped) - 2))
             ELSE SubFrom(s, 1, <<>>, st)
    IN  IF r.out.status = "ok" /\ r.out.value.t = "str"
        THEN SubFrom(r.out.value.s, 1, <<>>, r.st)
        ELSE r

\* render_template, the str branch
RenderStr(s, st) ==
    LET stripped == Strip(s)
    IN  IF FullMatch(stripped)
        THEN Lookup(st, SubSeq(stripped, 3, Len(stripped) - 2))
        ELSE SubFrom(s, 1, <<>>, st)

RECURSIVE RenderTemplate(_, _)
RECURSIVE RenderItems(_, _, _, _)
RECURSIVE RenderPairs(_, _, _, _)

\* [render_template(item, clipboard) for item in template[p:]], done being the
\* items rendered so far; the first exception ends the comprehension
RenderItems(items, p, done, st) ==
    IF p > Len(items) THEN [out |-> Ok(PyList(done)), st |-> st]
    ELSE LET r == RenderTemplate(items[p], st)
         IN  IF r.out.status # "ok" THEN r
             ELSE RenderItems(items, p + 1, Append(done, r.out.value), r.st)

\* the mapping comprehension with the pairs put in reverse order
RenderPairsReversed(items, p, done, st) ==
    IF p > Len(items) THEN [out |-> Ok(PyDict(done)), st |-> st]
    ELSE LET r == RenderTemplate(items[p].v, st)
         IN  IF r.out.status # "ok" THEN r
             ELSE RenderPairs(items, p + 1,
                              <<[k |-> items[p].k, v |-> r.out.value]>> \o done, r.st)

\* {k: render_template(v, clipboard) for k, v in template.items()}
RenderPairs(items, p, done, st) ==
    IF p > Len(items) THEN [out |-> Ok(PyDict(done)), st |-> st]
    ELSE LET r == RenderTemplate(items[p].v, st)
         IN  IF r.out.status # "ok" THEN r
             ELSE RenderPairs(items, p + 1, DictPut(done, items[p].k, r.out.value), r.st)

\* render_template(template, clipboard)
RenderTemplate(template, st) ==
    CASE template.t = "str"  -> RenderStr(template.s, st)
      [] template.t = "dict" -> RenderPairs(template.items, 1, <<>>, st)
      [] template.t = "list" -> RenderItems(template.items, 1, <<>>, st)
      [] OTHER -> [out |-> Ok(template), st |-> st]

----------------------------------------------------------------------------
(* execute_tool (tools.py) and execute_template_invoke (template.py) *)

\* the keys of the dicts execute_template_invoke reads and writes
InvokeKey ==
    [tool |-> <<"t", "o", "o", "l">>,
     parameters |-> <<"p", "a", "r", "a", "m", "e", "t", "e", "r", "s">>,
     tool_executed |-> <<"t", "o", "o", "l", "_", "e", "x", "e", "c", "u", "t", "e", "d">>,
     substitutions_applied |->
         <<"s", "u", "b", "s", "t", "i", "t", "u", "t", "i", "o", "n", "s", "_",
           "a", "p", "p", "l", "i", "e", "d">>,
     result |-> <<"r", "e", "s", "u", "l", "t">>]

\* the tool name "create_file"
ToolCreateFile == <<"c", "r", "e", "a", "t", "e", "_", "f", "i", "l", "e">>
\* the names in TOOL_EXECUTORS: create_file, read_file, http_request
ToolExecutors ==
    {ToolCreateFile,
     <<"r", "e", "a", "d", "_", "f", "i", "l", "e">>,
     <<"h", "t", "t", "p", "_", "r", "e", "q", "u", "e", "s", "t">>}

\* execute_tool raising for a name that is not in TOOL_EXECUTORS
ExecuteToolUnknownRaises(tool_name, args, env) ==
    IF tool_name \notin ToolExecutors THEN Raise("KeyError", [key |-> tool_name]) ELSE env

\* execute_tool(tool_name, args): an unknown name gives an error value; a
\* known tool works on files or the network, so what it returns or raises,
\* env, is the environment's choice
ExecuteTool(tool_name, args, env) ==
    IF tool_name \notin ToolExecutors
    THEN Ok(PyDict(<<
             [k |-> <<"e", "r", "r", "o", "r">>,
              v |-> PyStr(<<"U", "n", "k", "n", "o", "w", "n", " ",
                            "t", "o", "o", "l", ":", " ">> \o tool_name)]>>))
    ELSE env

\* the tool call of execute_template_invoke made also after a failed render
RunRenderedAnyway(tool_name, r, env) ==
    [out |-> IF r.out.status # "ok" THEN r.out
             ELSE ExecuteTool(tool_name, r.out.value, env),
     st |-> r.st,
     calls |-> <<[tool |-> tool_name, args |-> r.out.value]>>]

\* execute_template_invoke from the rendering r of the parameters on: the
\* executor is called with the rendered parameters and its result wrapped;
\* an exception of render_template or of the executor propagates
RunRendered(tool_name, r, env) ==
    IF r.out.status # "ok" THEN [out |-> r.out, st |-> r.st, calls |-> <<>>]
    ELSE LET result == ExecuteTool(tool_name, r.out.value, env)
             call == [tool |-> tool_name, args |-> r.out.value]
         IN  IF result.status # "ok"
             THEN [out |-> result, st |-> r.st, calls |-> <<call>>]
             ELSE [out |-> Ok(PyDict(<<
                       [k |-> InvokeKey.tool_executed, v |-> PyStr(tool_name)],
                       [k |-> InvokeKey.substitutions_applied, v |-> PyBool(TRUE)],
                       [k |-> InvokeKey.result, v |-> result.value]>>)),
                   st |-> r.st, calls |-> <<call>>]

\* execute_template_invoke(args, clipboard, tool_executor) with
\* args["template"] = template and tool_executor = execute_tool; calls are
\* the executor calls made, in order
ExecuteTemplateInvoke(template, st, env) ==
    IF ~DictHas(template.items, InvokeKey.tool)
    THEN [out |-> Raise("KeyError", [key |-> InvokeKey.tool]), st |-> st, calls |-> <<>>]
    ELSE IF ~DictHas(template.items, InvokeKey.parameters)
    THEN [out |-> Raise("KeyError", [key |-> InvokeKey.parameters]), st |-> st, calls |-> <<>>]
    ELSE RunRendered(DictGet(template.items, InvokeKey.tool).s,
                     RenderTemplate(DictGet(template.items, InvokeKey.parameters), st),
                     env)

----------------------------------------------------------------------------
(* Inputs of the result store operations *)

ToolA == <<"a">>
\* a tool whose name is the word "last"
ToolLast == LastRef
\* a tool whose name ends in ":<digits>"
ToolColon == <<"a", ":", "0">>
\* a name no result is ever stored under
ToolNever == <<"z">>

ToolNames == {ToolA, ToolLast, ToolColon}

Result1 == PyDict(<<[k |-> <<"x">>, v |-> PyInt(1)]>>)
Result2 == PyStr(<<"v", "2">>)
StoreValues == {Result1, Result2}

\* "<name>:<i>"
OrdinalRef(name, i) == name \o <<":">> \o FormatNat(i)

\* ordinal suffixes that are no decimal literal
BadSuffixes == {<<>>, <<"x">>, <<"-", "1">>, <<" ", "1">>, <<SUP2>>, <<FW1>>}

Sources ==
    {LastRef} \cup ToolNames \cup {ToolNever}
    \cup {OrdinalRef(n, i) : n \in ToolNames \cup {ToolNever}, i \in 0..MaxStores}
    \cup {ToolA \o <<":">> \o suf : suf \in BadSuffixes}

----------------------------------------------------------------------------
(* State *)

Snapshot ==
    [by_tool |-> by_tool, last |-> last, slots |-> slots,
     bytes_stored |-> bytes_stored, usage_count |-> usage_count,
     tool_calls |-> tool_calls]

Init ==
    /\ by_tool = <<>>
    /\ last = PyNone
    /\ slots = <<>>
    /\ bytes_stored = <<>>
    /\ usage_count = <<>>
    /\ ret = [op |-> "init"]
    /\ pre = [by_tool |-> <<>>, last |-> PyNone, slots |-> <<>>,
              bytes_stored |-> <<>>, usage_count |-> <<>>, tool_calls |-> <<>>]
    /\ tool_calls = <<>>
    /\ hist = <<>>
    /\ lookups = <<>>
    /\ live = <<>>
    /\ run = [pc |-> "call", turn |-> 0, model_calls |-> 0, content |-> <<>>, pos |-> 1,
              tool_results |-> <<>>, messages |-> 1, result |-> [status |-> "running"]]

----------------------------------------------------------------------------
(* Operations of ToolResultStore *)

\* result_store.store(tool_name, result)
Store(tool_name, result) ==
    /\ Len(hist) < MaxStores
    /\ LET entry == Entry(tool_name, result)
           bt == StoreByTool(by_tool, tool_name, entry)
           idx == StoreIdx(bt, tool_name)
       IN  /\ by_tool' = bt
           /\ last' = StoreLast(last, entry)
           /\ ret' = [op |-> "store", tool |-> tool_name, result |-> result,
                      idx |-> idx, out |-> Ok(StoreReturn(idx))]
    /\ hist' = Append(hist, Entry(tool_name, result))
    /\ pre' = Snapshot
    /\ UNCHANGED <<clipVars, tool_calls, run>>

\* result_store.get(source)
Get(source) ==
    /\ ret' = [op |-> "get", source |-> source,
               out |-> ResultStoreGet(by_tool, last, source)]
    /\ pre' = Snapshot
    /\ UNCHANGED <<storeVars, clipVars, tool_calls, run>>

\* result_store.list_sources()
ListSourcesCall ==
    /\ ret' = [op |-> "list_sources", out |-> Ok(PyList(ListSources(by_tool)))]
    /\ pre' = Snapshot
    /\ UNCHANGED <<storeVars, clipVars, tool_calls, run>>

NextStore ==
    \/ \E n \in ToolNames, v \in StoreValues : Store(n, v)
    \/ \E src \in Sources : Get(src)
    \/ ListSourcesCall

\* the result store driven by any sequence of its operations
SpecStore == Init /\ [][NextStore]_vars

----------------------------------------------------------------------------
(* Inputs of the clipboard and render operations *)

SlotX == <<"x">>
SlotY == <<"y", "1">>
\* a slot that is never set
SlotZ == <<"z">>
SlotNames == {SlotX, SlotY}

ValInt == PyInt(42)
ValMap == PyDict(<<[k |-> <<"k">>, v |-> PyList(<<PyInt(1), PyBool(TRUE), PyNone>>)]>>)
\* a text, one that itself holds the placeholder {{y1}}
ValText == PyStr(<<"a", "{", "{", "y", "1", "}", "}">>)
ValList == PyList(<<PyBool(FALSE), PyStr(<<"s">>)>>)
SlotValues == {ValInt, ValMap, ValText, ValList}

\* the text {{name}}
Ph(name) == <<"{", "{">> \o name \o <<"}", "}">>

\* "{{x}}"
TplFull == PyStr(Ph(SlotX))
\* " {{y1}}\n"
TplFullSpaced == PyStr(<<" ">> \o Ph(SlotY) \o <<"\n">>)
\* "{{x}}."
TplPunct == PyStr(Ph(SlotX) \o <<".">>)
\* "n={{x}} {{y1}}{{x}}"
TplMixed == PyStr(<<"n", "=">> \o Ph(SlotX) \o <<" ">> \o Ph(SlotY) \o Ph(SlotX))
\* "{{{x}}}"
TplBraces == PyStr(<<"{">> \o Ph(SlotX) \o <<"}">>)
\* "{{z}}"
TplAbsent == PyStr(Ph(SlotZ))
\* "{{x}} {{z}}"
TplAbsentSecond == PyStr(Ph(SlotX) \o <<" ">> \o Ph(SlotZ))
\* {"{{x}}": ["{{x}}", 1, None, True, "a{{y1}}"]}
TplTree ==
    PyDict(<<[k |-> Ph(SlotX),
              v |-> PyList(<<PyStr(Ph(SlotX)), PyInt(1), PyNone, PyBool(TRUE),
                             PyStr(<<"a">> \o Ph(SlotY))>>)]>>)
\* ["{{y1}}", "{{z}}"]
TplListAbsent == PyList(<<PyStr(Ph(SlotY)), PyStr(Ph(SlotZ))>>)
\* "{{ x }}", "{{}}", "{{x}", "{{x-}}" and "plain": no placeholder in any
TplSpacedName == PyStr(<<"{", "{", " ", "x", " ", "}", "}">>)
TplEmptyName == PyStr(<<"{", "{", "}", "}">>)
TplUnclosed == PyStr(<<"{", "{", "x", "}">>)
TplDashName == PyStr(<<"{", "{", "x", "-", "}", "}">>)
TplPlain == PyStr(<<"p", "l", "a", "i", "n">>)
\* {"{{x}}": ["plain", 3, {"m": "{{}}", "n": None, "o": "{{x-}}"}, "{{ x }}"],
\*  "b": False}
TplTreePlain ==
    PyDict(<<[k |-> Ph(SlotX),
              v |-> PyList(<<TplPlain, PyInt(3),
                             PyDict(<<[k |-> <<"m">>, v |-> TplEmptyName],
                                      [k |-> <<"n">>, v |-> PyNone],
                                      [k |-> <<"o">>, v |-> TplDashName]>>),
                             TplSpacedName>>)],
             [k |-> <<"b">>, v |-> PyBool(FALSE)]>>)

\* {"b": "{{x}}", "{{y1}}": ["n{{y1}}", False], "a": 5}
TplPairs ==
    PyDict(<<[k |-> <<"b">>, v |-> PyStr(Ph(SlotX))],
             [k |-> Ph(SlotY), v |-> PyList(<<PyStr(<<"n">> \o Ph(SlotY)), PyBool(FALSE)>>)],
             [k |-> <<"a">>, v |-> PyInt(5)]>>)

\* templates that hold no placeholder
PlainTemplates == {TplUnclosed, TplTreePlain, PyInt(7)}

Templates ==
    {TplFull, TplFullSpaced, TplPunct, TplMixed, TplBraces, TplAbsent,
     TplAbsentSecond, TplTree, TplListAbsent, TplPairs} \cup PlainTemplates

----------------------------------------------------------------------------
(* Operations of ClipboardState and render_template *)

Clipboard == [slots |-> slots, bytes_stored |-> bytes_stored, usage_count |-> usage_count]

\* the number of times name occurs in a sequence of names
CountIn(names, name) == Cardinality({i \in 1..Len(names) : names[i] = name})

\* clipboard.set(slot, value)
Set(slot, value) ==
    /\ LET cb == ClipSet(Clipboard, slot, value)
       IN  /\ slots' = cb.slots
           /\ bytes_stored' = cb.bytes_stored
           /\ usage_count' = cb.usage_count
    /\ lookups' = DictPut(lookups, slot, 0)
    /\ live' = DictPut(live, slot, value)
    /\ ret' = [op |-> "set", slot |-> slot, value |-> value, out |-> Ok(PyNone)]
    /\ pre' = Snapshot
    /\ UNCHANGED <<storeVars, tool_calls, run>>

\* clipboard.clear(slot), arg being None or a str
Clear(arg) ==
    /\ slots' = ClipClear(slots, arg)
    /\ ret' = [op |-> "clear", slot |-> arg, out |-> Ok(PyNone)]
    /\ pre' = Snapshot
    /\ live' = IF arg.t = "str" THEN DictPop(live, arg.s) ELSE <<>>
    /\ UNCHANGED <<storeVars, bytes_stored, usage_count, lookups, tool_calls, run>>

\* a render that takes back its use counts when it fails
RenderRollingBack(template) ==
    \E r \in {RenderTemplate(template, RenderState(slots, usage_count))} :
        /\ \A i \in 1..Len(r.st.usage_count) : r.st.usage_count[i].v <= MaxUse
        /\ usage_count' = IF r.out.status = "ok" THEN r.st.usage_count ELSE usage_count
        /\ lookups' = IF r.out.status # "ok" THEN lookups
                      ELSE [i \in 1..Len(lookups) |->
                               [k |-> lookups[i].k,
                                v |-> lookups[i].v + CountIn(r.st.looked, lookups[i].k)]]
        /\ ret' = [op |-> "render", template |-> template, out |-> r.out]
        /\ pre' = Snapshot
        /\ UNCHANGED <<storeVars, slots, bytes_stored, live, tool_calls, run>>

\* render_template(template, clipboard)
Render(template) ==
    \E r \in {RenderTemplate(template, RenderState(slots, usage_count))} :
        /\ \A i \in 1..Len(r.st.usage_count) : r.st.usage_count[i].v <= MaxUse
        /\ usage_count' = r.st.usage_count
        /\ lookups' = [i \in 1..Len(lookups) |->
                          [k |-> lookups[i].k,
                           v |-> lookups[i].v + CountIn(r.st.looked, lookups[i].k)]]
        /\ ret' = [op |-> "render", template |-> template, out |-> r.out]
        /\ pre' = Snapshot
        /\ UNCHANGED <<storeVars, slots, bytes_stored, live, tool_calls, run>>

NextRender ==
    \/ \E sl \in SlotNames, v \in SlotValues : Set(sl, v)
    \/ \E sl \in SlotNames : Clear(PyStr(sl))
    \/ Clear(PyNone)
    \/ \E t \in Templates : Render(t)

\* the clipboard driven by any sequence of set, clear and render
SpecRender == Init /\ [][NextRender]_vars

----------------------------------------------------------------------------
(* template_invoke *)

\* {"tool": tool, "parameters": params}
InvokeTemplate(tool, params) ==
    PyDict(<<[k |-> InvokeKey.tool, v |-> PyStr(tool)],
             [k |-> InvokeKey.parameters, v |-> params]>>)

\* templates naming a known and an unknown tool, and two that lack a key
InvokeTemplates ==
    {InvokeTemplate(tool, params) :
        tool \in {ToolCreateFile, ToolNever},
        params \in {TplTree, TplListAbsent, TplAbsentSecond, TplTreePlain}}
    \cup {PyDict(<<[k |-> InvokeKey.tool, v |-> PyStr(ToolCreateFile)]>>),
          PyDict(<<[k |-> InvokeKey.parameters, v |-> TplMixed]>>)}

\* what a known tool may return or raise
ToolOutcomes ==
    {Ok(PyDict(<<[k |-> CopyKey.success, v |-> PyBool(TRUE)]>>)),
     Raise("OSError", [key |-> <<>>])}

\* execute_template_invoke({"template": template}, clipboard, execute_tool)
TemplateInvoke(template, env) ==
    \E r \in {ExecuteTemplateInvoke(template, RenderState(slots, usage_count), env)} :
        /\ \A i \in 1..Len(r.st.usage_count) : r.st.usage_count[i].v <= MaxUse
        /\ usage_count' = r.st.usage_count
        /\ lookups' = [i \in 1..Len(lookups) |->
                          [k |-> lookups[i].k,
                           v |-> lookups[i].v + CountIn(r.st.looked, lookups[i].k)]]
        /\ ret' = [op |-> "template_invoke", template |-> template, env |-> env,
                   out |-> r.out, calls |-> r.calls]
        /\ pre' = Snapshot
        /\ UNCHANGED <<storeVars, slots, bytes_stored, live, tool_calls, run>>

NextInvoke ==
    \/ \E sl \in SlotNames, v \in {ValInt, ValText} : Set(sl, v)
    \/ \E sl \in SlotNames : Clear(PyStr(sl))
    \/ Clear(PyNone)
    \/ \E t \in {TplMixed, TplAbsentSecond, TplListAbsent} : Render(t)
    \/ \E t \in InvokeTemplates, env \in ToolOutcomes : TemplateInvoke(t, env)

SpecInvoke == Init /\ [][NextInvoke]_vars

----------------------------------------------------------------------------
(* The operations of ClipboardState called directly *)

\* the empty string as a slot name
SlotEmpty == <<>>
ClipSlots == {SlotX, SlotEmpty}
ClipAsked == ClipSlots \cup {SlotZ}

\* clipboard.record_usage(slot)
RecordUsageCall(slot) ==
    /\ usage_count' = RecordUsage(usage_count, slot)
    /\ \A i \in 1..Len(usage_count') : usage_count'[i].v <= MaxUse
    /\ ret' = [op |-> "record_usage", slot |-> slot, out |-> Ok(PyNone)]
    /\ pre' = Snapshot
    /\ UNCHANGED <<storeVars, slots, bytes_stored, lookups, live, tool_calls, run>>

\* clipboard.get(slot)
GetCall(slot) ==
    /\ ret' = [op |-> "clipboard_get", slot |-> slot, out |-> ClipGet(slots, slot)]
    /\ pre' = Snapshot
    /\ UNCHANGED <<storeVars, clipVars, tool_calls, run>>

\* clipboard.has(slot)
HasCall(slot) ==
    /\ ret' = [op |-> "has", slot |-> slot, out |-> Ok(PyBool(ClipHas(slots, slot)))]
    /\ pre' = Snapshot
    /\ UNCHANGED <<storeVars, clipVars, tool_calls, run>>

\* clipboard.get_token_savings_estimate()
Estimate ==
    /\ ret' = [op |-> "estimate", out |-> Ok(GetTokenSavingsEstimate(Clipboard))]
    /\ pre' = Snapshot
    /\ UNCHANGED <<storeVars, clipVars, tool_calls, run>>

NextClipboard ==
    \/ \E sl \in ClipSlots, v \in {ValInt, ValText, ValList} : Set(sl, v)
    \/ \E sl \in ClipSlots : Clear(PyStr(sl))
    \/ Clear(PyNone)
    \/ \E sl \in ClipAsked : RecordUsageCall(sl)
    \/ \E sl \in ClipAsked : GetCall(sl)
    \/ \E sl \in ClipAsked : HasCall(sl)
    \/ Estimate
    \/ \E t \in {TplFull, TplPunct} : Render(t)

SpecClipboard == Init /\ [][NextClipboard]_vars

----------------------------------------------------------------------------
(* copy *)

\* {"content": "ab\ncd", "n": [7, "cd"]}
ResultDoc ==
    PyDict(<<[k |-> CopyKey.content, v |-> PyStr(<<"a", "b", "\n", "c", "d">>)],
             [k |-> <<"n">>, v |-> PyList(<<PyInt(7), PyStr(<<"c", "d">>)>>)]>>)
\* "cd\nb"
ResultText == PyStr(<<"c", "d", "\n", "b">>)

\* the optional fields of a copy request, each a list of none or one item
JsonPathFields ==
    {<<>>,
     <<[k |-> CopyKey.json_path, v |-> PyStr(<<"n", ".", "1">>)]>>,
     <<[k |-> CopyKey.json_path, v |-> PyStr(<<"n", ".", "5">>)]>>}
PatternFields ==
    {<<>>,
     <<[k |-> CopyKey.pattern, v |-> PyStr(<<"b">>)]>>,
     <<[k |-> CopyKey.pattern, v |-> PyStr(<<"z", "z">>)]>>}
LineFields ==
    {<<>>,
     <<[k |-> CopyKey.start_line, v |-> PyInt(1)], [k |-> CopyKey.end_line, v |-> PyInt(1)]>>,
     <<[k |-> CopyKey.start_line, v |-> PyInt(2)]>>}

\* the items of {"slot": "x", "source": source, ...}
CopyRequests ==
    {<<[k |-> CopyKey.slot, v |-> PyStr(SlotX)], [k |-> CopyKey.source, v |-> PyStr(source)]>>
         \o j \o pt \o ln :
     source \in {LastRef, OrdinalRef(ToolA, 0), ToolNever}, j \in JsonPathFields, pt \in PatternFields,
     ln \in LineFields}

\* execute_copy(clipboard, result_store, args)
Copy(args) ==
    \E r \in {ExecuteCopy(Clipboard, by_tool, last, args)} :
        /\ slots' = r.cb.slots
        /\ bytes_stored' = r.cb.bytes_stored
        /\ usage_count' = r.cb.usage_count
        /\ lookups' = IF r.out.status = "ok"
                      THEN DictPut(lookups, DictGet(args, CopyKey.slot).s, 0) ELSE lookups
        /\ live' = IF r.out.status = "ok"
                   THEN DictPut(live, DictGet(args, CopyKey.slot).s,
                                DictGet(r.cb.slots, DictGet(args, CopyKey.slot).s))
                   ELSE live
        /\ ret' = [op |-> "copy", args |-> PyDict(args), out |-> r.out]
        /\ pre' = Snapshot
        /\ UNCHANGED <<storeVars, tool_calls, run>>

NextCopy ==
    \/ \E result \in {ResultDoc, ResultText} : Store(ToolA, result)
    \/ \E args \in CopyRequests : Copy(args)

SpecCopy == Init /\ [][NextCopy]_vars

----------------------------------------------------------------------------
(* The extraction functions called on their own *)

\* line numbers asked for run from -MaxLine to MaxLine
MaxLine == 4

\* "a\nb\nc", "ab", "" and "a\n"
ExtractTexts ==
    {<<"a", "\n", "b", "\n", "c">>, <<"a", "b">>, <<>>, <<"a", "\n">>}

\* {"items": ["a", "b", "c"], "m": {"k": 1}}
PathDoc ==
    PyDict(<<[k |-> <<"i", "t", "e", "m", "s">>,
              v |-> PyList(<<PyStr(<<"a">>), PyStr(<<"b">>), PyStr(<<"c">>)>>)],
             [k |-> <<"m">>, v |-> PyDict(<<[k |-> <<"k">>, v |-> PyInt(1)]>>)]>>)

\* "items", "m.k", "m.q", "q", "m.k.z", "" and "items." followed by one of
\* 1, 01, 3, 9, x, -1, a superscript two, a fullwidth one
ExtractPaths ==
    {<<"i", "t", "e", "m", "s">>, <<"m", ".", "k">>, <<"m", ".", "q">>, <<"q">>,
     <<"m", ".", "k", ".", "z">>, <<>>}
    \cup {<<"i", "t", "e", "m", "s", ".">> \o idx :
             idx \in {<<"1">>, <<"0", "1">>, <<"3">>, <<"9">>, <<"x">>,
                      <<"-", "1">>, <<SUP2>>, <<FW1>>}}

\* results that are a str, or a dict holding each choice of the keys
\* content, text and data, or none of them
TextResults ==
    {PyStr(<<"s", "\n">>), PyDict(<<>>), PyDict(<<[k |-> <<"x">>, v |-> PyInt(1)]>>)}
    \cup {PyDict(c \o t \o d) :
             c \in {<<>>, <<[k |-> CopyKey.content, v |-> PyInt(1)]>>,
                    <<[k |-> CopyKey.content, v |-> PyStr(<<>>)]>>},
             t \in {<<>>, <<[k |-> CopyKey.text, v |-> PyNone]>>,
                    <<[k |-> CopyKey.text, v |-> PyStr(<<"t">>)]>>},
             d \in {<<>>, <<[k |-> CopyKey.data, v |-> PyList(<<PyInt(1)>>)]>>}}
    \cup {PyDict(<<[k |-> CopyKey.data, v |-> PyStr(<<"d">>)],
                   [k |-> CopyKey.text, v |-> PyStr(<<"t">>)],
                   [k |-> CopyKey.content, v |-> PyStr(<<"c">>)]>>)}

\* _extract_by_lines(text, start, end)
ExtractLinesCall(text, start, end) ==
    /\ ret' = [op |-> "extract_by_lines", text |-> text, start |-> start,
               end |-> end, out |-> ExtractByLines(text, start, end)]
    /\ pre' = Snapshot
    /\ UNCHANGED <<storeVars, clipVars, tool_calls, run>>

\* _extract_by_json_path(result, path)
JsonPathCall(result, path) ==
    /\ ret' = [op |-> "extract_by_json_path", result |-> result, path |-> path,
               out |-> ExtractByJsonPath(result, path)]
    /\ pre' = Snapshot
    /\ UNCHANGED <<storeVars, clipVars, tool_calls, run>>

\* _get_text_content(result)
TextContentCall(result) ==
    /\ ret' = [op |-> "get_text_content", result |-> result,
               out |-> GetTextContent(result)]
    /\ pre' = Snapshot
    /\ UNCHANGED <<storeVars, clipVars, tool_calls, run>>

NextExtract ==
    \/ \E text \in ExtractTexts, start \in (-MaxLine)..MaxLine,
          end \in (-MaxLine)..MaxLine : ExtractLinesCall(text, start, end)
    \/ \E result \in {PathDoc, ResultText}, path \in ExtractPaths :
           JsonPathCall(result, path)
    \/ \E result \in TextResults : TextContentCall(result)

SpecExtract == Init /\ [][NextExtract]_vars

----------------------------------------------------------------------------
(* ClipboardAgent (agent.py): the tool dispatch and the statistics *)

\* successful tool calls in one run
MaxCalls == 3

\* the tool names the dispatch tells apart and the key it reads
AgentKey ==
    [copy |-> <<"c", "o", "p", "y">>,
     template_invoke |-> <<"t", "e", "m", "p", "l", "a", "t", "e", "_",
                           "i", "n", "v", "o", "k", "e">>,
     template |-> <<"t", "e", "m", "p", "l", "a", "t", "e">>]

\* _execute_tool_call with the result of every call stored, that of copy
\* and template_invoke included
ExecuteToolCallStoringAll(ag, tool_name, tool_input, env) ==
    LET b == IF tool_name = AgentKey.copy
             THEN LET r == ExecuteCopy(ag.cb, ag.by_tool, ag.last, tool_input.items)
                  IN  [out |-> r.out, cb |-> r.cb, looked |-> <<>>, calls |-> <<>>]
             ELSE IF tool_name = AgentKey.template_invoke
             THEN IF ~DictHas(tool_input.items, AgentKey.template)
                  THEN [out |-> Raise("KeyError", [key |-> AgentKey.template]),
                        cb |-> ag.cb, looked |-> <<>>, calls |-> <<>>]
                  ELSE LET r == ExecuteTemplateInvoke(
                                    DictGet(tool_input.items, AgentKey.template),
                                    RenderState(ag.cb.slots, ag.cb.usage_count), env)
                       IN  [out |-> r.out,
                            cb |-> [ag.cb EXCEPT !.usage_count = r.st.usage_count],
                            looked |-> r.st.looked, calls |-> r.calls]
             ELSE [out |-> ExecuteTool(tool_name, tool_input, env), cb |-> ag.cb,
                   looked |-> <<>>,
                   calls |-> <<[tool |-> tool_name, args |-> tool_input]>>]
        ok == b.out.status = "ok"
        stored == IF ok THEN <<Entry(tool_name, b.out.value)>> ELSE <<>>
    IN  [out |-> b.out, cb |-> b.cb, looked |-> b.looked, calls |-> b.calls,
         stored |-> stored,
         by_tool |-> IF ok THEN StoreByTool(ag.by_tool, tool_name, stored[1])
                     ELSE ag.by_tool,
         last |-> IF ok THEN StoreLast(ag.last, stored[1]) ELSE ag.last,
         tool_calls |-> IF ok
                        THEN Append(ag.tool_calls,
                                    [tool |-> tool_name, input |-> tool_input,
                                     used_clipboard |->
                                         tool_name \in {AgentKey.copy, AgentKey.template_invoke},
                                     result |-> b.out.value])
                        ELSE ag.tool_calls]

\* ClipboardAgent._execute_tool_call(tool_name, tool_input) on the agent ag
\* (its clipboard cb, its result store by_tool and last, its tool_calls):
\* copy and template_invoke go to the clipboard, any other name to
\* execute_tool, whose result is stored; the call record is appended once the
\* call has returned, and an exception leaves the method before that.  looked
\* are the slots render_template looked up, calls the calls of execute_tool,
\* stored the entries given to the result store
ExecuteToolCall(ag, tool_name, tool_input, env) ==
    LET call_record == [tool |-> tool_name, input |-> tool_input]
        kept == [by_tool |-> ag.by_tool, last |-> ag.last, stored |-> <<>>]
        b == IF tool_name = AgentKey.copy
             THEN LET r == ExecuteCopy(ag.cb, ag.by_tool, ag.last, tool_input.items)
                  IN  [out |-> r.out, cb |-> r.cb, looked |-> <<>>, calls |-> <<>>,
                       store |-> kept]
             ELSE IF tool_name = AgentKey.template_invoke
             THEN IF ~DictHas(tool_input.items, AgentKey.template)
                  THEN [out |-> Raise("KeyError", [key |-> AgentKey.template]),
                        cb |-> ag.cb, looked |-> <<>>, calls |-> <<>>, store |-> kept]
                  ELSE LET r == ExecuteTemplateInvoke(
                                    DictGet(tool_input.items, AgentKey.template),
                                    RenderState(ag.cb.slots, ag.cb.usage_count), env)
                       IN  [out |-> r.out,
                            cb |-> [ag.cb EXCEPT !.usage_count = r.st.usage_count],
                            looked |-> r.st.looked, calls |-> r.calls, store |-> kept]
             ELSE LET result == ExecuteTool(tool_name, tool_input, env)
                      entry == Entry(tool_name, result.value)
                  IN  [out |-> result, cb |-> ag.cb, looked |-> <<>>,
                       calls |-> <<[tool |-> tool_name, args |-> tool_input]>>,
                       store |-> IF result.status # "ok" THEN kept
                                 ELSE [by_tool |-> StoreByTool(ag.by_tool, tool_name, entry),
                                       last |-> StoreLast(ag.last, entry),
                                       stored |-> <<entry>>]]
    IN  [out |-> b.out, cb |-> b.cb, looked |-> b.looked, calls |-> b.calls,
         stored |-> b.store.stored, by_tool |-> b.store.by_tool, last |-> b.store.last,
         tool_calls |-> IF b.out.status # "ok" THEN ag.tool_calls
                        ELSE Append(ag.tool_calls,
                                    [tool |-> call_record.tool, input |-> call_record.input,
                                     used_clipboard |->
                                         tool_name \in {AgentKey.copy, AgentKey.template_invoke},
                                     result |-> b.out.value])]

\* ClipboardAgent.get_stats() without token_usage, which counts the tokens of
\* the model's replies
GetStats(ag) ==
    [total_tool_calls |-> Len(ag.tool_calls),
     copy_calls |-> Cardinality({i \in 1..Len(ag.tool_calls) :
                                    ag.tool_calls[i].tool = AgentKey.copy}),
     template_invoke_calls |->
         Cardinality({i \in 1..Len(ag.tool_calls) :
                         ag.tool_calls[i].tool = AgentKey.template_invoke}),
     clipboard_slots |-> DictKeys(ag.cb.slots),
     stored_results |-> ListSources(ag.by_tool),
     token_savings |-> GetTokenSavingsEstimate(ag.cb)]

\* the tool calls the model may ask for, each a name and an input
AgentCalls ==
    {<<AgentKey.copy,
       PyDict(<<[k |-> CopyKey.slot, v |-> PyStr(SlotX)],
                [k |-> CopyKey.source, v |-> PyStr(source)]>> \o j)>> :
        source \in {LastRef, ToolCreateFile, ToolNever},
        j \in {<<>>, <<[k |-> CopyKey.json_path, v |-> PyStr(CopyKey.success)]>>}}
    \cup {<<AgentKey.template_invoke,
            PyDict(<<[k |-> AgentKey.template, v |-> InvokeTemplate(tool, params)]>>)>> :
             tool \in {ToolCreateFile, ToolNever}, params \in {TplFull, TplAbsentSecond}}
    \cup {<<AgentKey.template_invoke, PyDict(<<>>)>>}
    \cup {<<tool, Result1>> : tool \in {ToolCreateFile, ToolNever}}

Agent == [cb |-> Clipboard, by_tool |-> by_tool, last |-> last, tool_calls |-> tool_calls]

\* agent._execute_tool_call(tool_name, tool_input)
ToolCall(tool_name, tool_input, env) ==
    \E r \in {ExecuteToolCall(Agent, tool_name, tool_input, env)} :
        /\ Len(r.tool_calls) <= MaxCalls
        /\ \A i \in 1..Len(r.cb.usage_count) : r.cb.usage_count[i].v <= MaxUse
        /\ by_tool' = r.by_tool
        /\ last' = r.last
        /\ hist' = hist \o r.stored
        /\ slots' = r.cb.slots
        /\ bytes_stored' = r.cb.bytes_stored
        /\ usage_count' = r.cb.usage_count
        /\ tool_calls' = r.tool_calls
        /\ LET copied == tool_name = AgentKey.copy /\ r.out.status = "ok"
               slot == DictGet(tool_input.items, CopyKey.slot).s
           IN  /\ lookups' = IF copied THEN DictPut(lookups, slot, 0)
                             ELSE [i \in 1..Len(lookups) |->
                                      [k |-> lookups[i].k,
                                       v |-> lookups[i].v + CountIn(r.looked, lookups[i].k)]]
               /\ live' = IF copied THEN DictPut(live, slot, DictGet(r.cb.slots, slot))
                          ELSE live
        /\ ret' = [op |-> "tool_call", tool |-> tool_name, input |-> tool_input,
                   env |-> env, out |-> r.out, calls |-> r.calls]
        /\ pre' = Snapshot
        /\ UNCHANGED run

\* agent.get_stats()
GetStatsCall ==
    /\ ret' = [op |-> "get_stats", out |-> Ok(GetStats(Agent))]
    /\ pre' = Snapshot
    /\ UNCHANGED <<storeVars, clipVars, tool_calls, run>>

NextAgent ==
    \/ \E c \in AgentCalls, env \in ToolOutcomes : ToolCall(c[1], c[2], env)
    \/ GetStatsCall

\* the agent driven by any sequence of tool calls
SpecAgent == Init /\ [][NextAgent]_vars

----------------------------------------------------------------------------
(* ClipboardAgent.run (agent.py): the agent loop *)

\* max_turns
MaxTurns == 20

RECURSIVE FinalText(_)
\* the texts of the text blocks of a response, one after the other
FinalText(content) ==
    IF content = <<>> THEN <<>>
    ELSE (IF content[1].type = "text" THEN content[1].text ELSE <<>>)
         \o FinalText(Tail(content))

\* run, lines 100-124 and 153-159: the test of the loop; while turn <
\* max_turns, turn += 1 and self.client.messages.create(...), which gives the
\* response, a list of blocks, or raises; once the turns are used up run
\* returns the text of the last response
Turn(response) ==
    /\ run.pc = "call"
    /\ run' = IF run.turn >= MaxTurns
              THEN [run EXCEPT !.pc = "returned",
                               !.result = Ok(PyStr(FinalText(run.content)))]
              ELSE IF response.status # "ok"
              THEN [run EXCEPT !.pc = "raised", !.turn = @ + 1, !.model_calls = @ + 1,
                               !.result = response]
              ELSE [run EXCEPT !.pc = "blocks", !.turn = @ + 1, !.model_calls = @ + 1,
                               !.content = response.value, !.pos = 1,
                               !.tool_results = <<>>]
    /\ ret' = [op |-> "turn", response |-> response]
    /\ pre' = Snapshot
    /\ UNCHANGED <<storeVars, clipVars, tool_calls>>

\* the step of the loop going on to the next block after a tool call raised
StepPastFailure(env) ==
    /\ run.pc = "blocks"
    /\ IF run.pos <= Len(run.content)
       THEN LET block == run.content[run.pos]
            IN  IF block.type # "tool_use"
                THEN /\ run' = [run EXCEPT !.pos = @ + 1]
                     /\ ret' = [op |-> "step", block |-> <<block>>, env |-> env,
                                out |-> Ok(PyNone)]
                     /\ UNCHANGED <<storeVars, clipVars, tool_calls>>
                ELSE \E r \in {ExecuteToolCall(Agent, block.name, block.input, env)} :
                         /\ by_tool' = r.by_tool
                         /\ last' = r.last
                         /\ hist' = hist \o r.stored
                         /\ slots' = r.cb.slots
                         /\ bytes_stored' = r.cb.bytes_stored
                         /\ usage_count' = r.cb.usage_count
                         /\ tool_calls' = r.tool_calls
                         /\ LET copied == block.name = AgentKey.copy /\ r.out.status = "ok"
                                slot == DictGet(block.input.items, CopyKey.slot).s
                            IN  /\ lookups' =
                                       IF copied THEN DictPut(lookups, slot, 0)
                                       ELSE [i \in 1..Len(lookups) |->
                                                [k |-> lookups[i].k,
                                                 v |-> lookups[i].v
                                                       + CountIn(r.looked, lookups[i].k)]]
                                /\ live' = IF copied
                                           THEN DictPut(live, slot, DictGet(r.cb.slots, slot))
                                           ELSE live
                         /\ run' = IF r.out.status # "ok"
                                   THEN [run EXCEPT !.pos = @ + 1]
                                   ELSE [run EXCEPT !.pos = @ + 1,
                                                    !.tool_results = Append(@, r.out.value)]
                         /\ ret' = [op |-> "step", block |-> <<block>>, env |-> env,
                                    out |-> r.out]
       ELSE /\ run' = IF run.tool_results # <<>>
                      THEN [run EXCEPT !.pc = "call", !.messages = @ + 2]
                      ELSE [run EXCEPT !.pc = "returned", !.messages = @ + 1,
                                       !.result = Ok(PyStr(FinalText(run.content)))]
            /\ ret' = [op |-> "step", block |-> <<>>, env |-> env, out |-> Ok(PyNone)]
            /\ UNCHANGED <<storeVars, clipVars, tool_calls>>
    /\ pre' = Snapshot

\* run, lines 126-151, one step of it: the next block of the response is
\* handled, a tool_use block by _execute_tool_call, whose exception leaves
\* run; past the last block the messages are appended, and the loop goes on
\* if the response held a tool call, and else run returns the text of the
\* response
Step(env) ==
    /\ run.pc = "blocks"
    /\ IF run.pos <= Len(run.content)
       THEN LET block == run.content[run.pos]
            IN  IF block.type # "tool_use"
                THEN /\ run' = [run EXCEPT !.pos = @ + 1]
                     /\ ret' = [op |-> "step", block |-> <<block>>, env |-> env,
                                out |-> Ok(PyNone)]
                     /\ UNCHANGED <<storeVars, clipVars, tool_calls>>
                ELSE \E r \in {ExecuteToolCall(Agent, block.name, block.input, env)} :
                         /\ by_tool' = r.by_tool
                         /\ last' = r.last
                         /\ hist' = hist \o r.stored
                         /\ slots' = r.cb.slots
                         /\ bytes_stored' = r.cb.bytes_stored
                         /\ usage_count' = r.cb.usage_count
                         /\ tool_calls' = r.tool_calls
                         /\ LET copied == block.name = AgentKey.copy /\ r.out.status = "ok"
                                slot == DictGet(block.input.items, CopyKey.slot).s
                            IN  /\ lookups' =
                                       IF copied THEN DictPut(lookups, slot, 0)
                                       ELSE [i \in 1..Len(lookups) |->
                                                [k |-> lookups[i].k,
                                                 v |-> lookups[i].v
                                                       + CountIn(r.looked, lookups[i].k)]]
                                /\ live' = IF copied
                                           THEN DictPut(live, slot, DictGet(r.cb.slots, slot))
                                           ELSE live
                         /\ run' = IF r.out.status # "ok"
                                   THEN [run EXCEPT !.pc = "raised", !.result = r.out]
                                   ELSE [run EXCEPT !.pos = @ + 1,
                                                    !.tool_results = Append(@, r.out.value)]
                         /\ ret' = [op |-> "step", block |-> <<block>>, env |-> env,
                                    out |-> r.out]
       ELSE /\ run' = IF run.tool_results # <<>>
                      THEN [run EXCEPT !.pc = "call", !.messages = @ + 2]
                      ELSE [run EXCEPT !.pc = "returned", !.messages = @ + 1,
                                       !.result = Ok(PyStr(FinalText(run.content)))]
            /\ ret' = [op |-> "step", block |-> <<>>, env |-> env, out |-> Ok(PyNone)]
            /\ UNCHANGED <<storeVars, clipVars, tool_calls>>
    /\ pre' = Snapshot

NextRun ==
    \/ \E response \in
           {Raise("APIError", <<>>),
            \* no block at all, and a text alone
            Ok(<<>>),
            Ok(<<[type |-> "text", text |-> <<"o", "k">>]>>),
            \* a text, then the tools z and create_file and a copy, then a text
            Ok(<<[type |-> "text", text |-> <<"a">>],
                 [type |-> "tool_use", name |-> ToolNever, input |-> Result1],
                 [type |-> "tool_use", name |-> ToolCreateFile, input |-> Result1],
                 [type |-> "tool_use", name |-> AgentKey.copy,
                  input |-> PyDict(<<[k |-> CopyKey.slot, v |-> PyStr(SlotX)],
                                     [k |-> CopyKey.source, v |-> PyStr(LastRef)]>>)],
                 [type |-> "text", text |-> <<"b">>]>>)} :
           Turn(response)
    \/ \E env \in ToolOutcomes : Step(env)

\* one run of the agent, which goes on for as long as it can take a step
SpecRun == Init /\ [][NextRun]_vars /\ WF_vars(NextRun)

----------------------------------------------------------------------------
(* Claims about ToolResultStore, checked under SpecStore *)

\* the results stored under a name so far, in call order
StoredUnder(name) ==
    LET Under(e) == e.tool = name IN SelectSeq(hist, Under)

\* a decimal literal: one or more of the characters 0..9
IsDecimalLiteral(s) ==
    Len(s) > 0 /\ \A i \in 1..Len(s) : s[i] \in Range(AsciiDigits)

\* the state of the result store is the one the last operation started from
StoreUntouched == by_tool = pre.by_tool /\ last = pre.last

\* C1: after one or more store calls, under any mix of tool names, get("last")
\* returns the entry of the most recent store call (its tool name and value).
C1_LastIsMostRecent ==
    (ret.op = "get" /\ ret.source = LastRef /\ Len(hist) > 0)
        => ret.out = Ok(hist[Len(hist)])

\* get("last") answered after three stores under two names, the last one
\* differing from the earlier ones
C1_Witness ==
    /\ ret.op = "get" /\ ret.source = LastRef
    /\ Len(hist) = 3
    /\ hist[1].tool # hist[3].tool
    /\ hist[2] # hist[3]
    /\ ret.out.status = "ok"

\* C2: for a tool name with k stored results, get("<name>:<i>") with 0 <= i < k
\* returns the i-th result appended under the name, whatever was stored later
\* under this or another name, and get("<name>:<k>") fails with KeyError.
C2_OrdinalsAreStable ==
    \A n \in ToolNames \cup {ToolNever}, i \in 0..MaxStores :
        (ret.op = "get" /\ ret.source = OrdinalRef(n, i))
            => LET under == StoredUnder(n)
               IN  /\ i < Len(under) => ret.out = Ok(under[i + 1])
                   /\ i = Len(under) => ret.out.status = "KeyError"

\* get("a:0") answered with the first of two different results under "a", a
\* result for another tool having been stored after them
C2_Witness ==
    /\ ret.op = "get" /\ ret.source = OrdinalRef(ToolA, 0)
    /\ Len(StoredUnder(ToolA)) = 2
    /\ StoredUnder(ToolA)[1] # StoredUnder(ToolA)[2]
    /\ hist[Len(hist)].tool # ToolA
    /\ ret.out = Ok(StoredUnder(ToolA)[1])

\* C3 as stated: for every tool name with a stored result, get("<name>") returns
\* the most recent result appended under that name.
C3_BareNameAnyTool ==
    \A n \in ToolNames :
        (ret.op = "get" /\ ret.source = n /\ Len(StoredUnder(n)) > 0)
            => ret.out = Ok(StoredUnder(n)[Len(StoredUnder(n))])

\* C3 amended: for every tool name other than "last" that holds no colon and has
\* a stored result, get("<name>") returns the most recent result appended under
\* that name, also when results of other tools were stored afterwards.
C3_BareNameMostRecent ==
    \A n \in ToolNames :
        (/\ ret.op = "get" /\ ret.source = n /\ Len(StoredUnder(n)) > 0
         /\ n # LastRef /\ LastIndexOf(n, ":") = 0)
            => ret.out = Ok(StoredUnder(n)[Len(StoredUnder(n))])

\* get("a") answered with the second result under "a" while "last" is the
\* entry of another tool
C3_Witness ==
    /\ ret.op = "get" /\ ret.source = ToolA
    /\ Len(StoredUnder(ToolA)) = 2
    /\ StoredUnder(ToolA)[1] # StoredUnder(ToolA)[2]
    /\ hist[Len(hist)].tool # ToolA
    /\ last # ret.out.value
    /\ ret.out = Ok(StoredUnder(ToolA)[2])

\* C4: get fails with KeyError and leaves the store unchanged when the
\* reference is "last" before any store, names a tool without entries, has an
\* ordinal >= the number of entries, or has a text after its rightmost colon
\* that is no non-negative integer literal.
C4_GetFailsWithKeyError ==
    ret.op = "get" =>
        LET src == ret.source
            c == LastIndexOf(src, ":")
            name == IF c > 0 THEN SubSeq(src, 1, c - 1) ELSE src
            suffix == SubSeq(src, c + 1, Len(src))
            fails ==
                \/ src = LastRef /\ Len(hist) = 0
                \/ src # LastRef /\ c = 0 /\ Len(StoredUnder(src)) = 0
                \/ c > 0 /\ ~IsDecimalLiteral(suffix)
                \/ c > 0 /\ IsDecimalLiteral(suffix)
                         /\ ParseNat(suffix) >= Len(StoredUnder(name))
        IN  fails => (ret.out.status = "KeyError" /\ StoreUntouched)

\* C5 as stated: store returns the new ordinal, the number of results stored
\* under the name before the call.
C5_StoreReturnsOrdinal ==
    ret.op = "store"
        => ret.out = Ok(PyInt(Len(StoredUnder(ret.tool)) - 1))

\* C5 amended: store always succeeds and returns None; the ordinal of the new
\* entry, which it logs, is the number of results stored under the name before
\* the call, and get("<name>:<that ordinal>") then returns the entry just stored.
C5_StoreAppendsAtOrdinal ==
    ret.op = "store"
        => /\ ret.out = Ok(PyNone)
           /\ ret.idx = Len(StoredUnder(ret.tool)) - 1
           /\ ResultStoreGet(by_tool, last, OrdinalRef(ret.tool, ret.idx))
                  = Ok(Entry(ret.tool, ret.result))

\* a store under "a" that already held another result, after a store for
\* another tool
C5_Witness ==
    /\ ret.op = "store" /\ ret.tool = ToolA /\ ret.idx = 1
    /\ Len(hist) = 3
    /\ StoredUnder(ToolA)[1].result # ret.result
    /\ ret.out.status = "ok"

RECURSIVE FirstAppearance(_)
\* the tool names of a sequence of entries, each once, in order of first appearance
FirstAppearance(h) ==
    IF Len(h) = 0 THEN <<>>
    ELSE LET front == FirstAppearance(SubSeq(h, 1, Len(h) - 1))
             n == h[Len(h)].tool
         IN  IF n \in Range(front) THEN front ELSE Append(front, n)

\* the references list_sources is to give for one name
GroupOf(n) ==
    LET k == Len(StoredUnder(n))
    IN  IF k = 1 THEN <<n>> ELSE [i \in 1..k |-> OrdinalRef(n, i - 1)]

RECURSIVE Concat(_)
Concat(ss) == IF Len(ss) = 0 THEN <<>> ELSE ss[1] \o Concat(Tail(ss))

\* C6: list_sources returns, grouped in the order in which each tool name was
\* first stored, the bare name for a name with one result and "<name>:0" ..
\* "<name>:<k-1>" in ascending order for a name with k >= 2 results.
C6_ListSources ==
    ret.op = "list_sources"
        => LET names == FirstAppearance(hist)
           IN  ret.out = Ok(PyList(Concat([j \in 1..Len(names) |-> GroupOf(names[j])])))

\* list_sources answered with two groups, the first of two ordinals and the
\* second a bare name, the second group's name stored between the first's results
C6_Witness ==
    /\ ret.op = "list_sources"
    /\ Len(hist) = 3
    /\ hist[1].tool = hist[3].tool /\ hist[2].tool # hist[1].tool
    /\ Len(ret.out.value.items) = 3
    /\ ret.out.value.items[3] = hist[2].tool

----------------------------------------------------------------------------
(* Claims about render_template, checked under SpecRender *)

\* a character of an identifier: a letter, a digit or an underscore
IsIdentChar(c) == c \in Letters \cup Range(AsciiDigits) \cup {"_"}

\* a placeholder {{identifier}} with an identifier of n >= 1 characters starts
\* at position i of s
Occurrence(s, i, n) ==
    /\ n >= 1 /\ i >= 1 /\ i + n + 3 <= Len(s)
    /\ s[i] = "{" /\ s[i + 1] = "{"
    /\ \A j \in (i + 2)..(i + n + 1) : IsIdentChar(s[j])
    /\ s[i + n + 2] = "}" /\ s[i + n + 3] = "}"

\* the placeholders of s, as <<position, length of the identifier>>
Occurrences(s) ==
    {o \in (1..Len(s)) \X (1..Len(s)) : Occurrence(s, o[1], o[2])}

\* the identifier of an occurrence
NameOf(s, o) == SubSeq(s, o[1] + 2, o[1] + o[2] + 1)

\* s is, but for surrounding whitespace, the one placeholder o
OnlyPlaceholder(s, o) ==
    /\ o \in Occurrences(s)
    /\ \A j \in 1..Len(s) : (j < o[1] \/ j > o[1] + o[2] + 3) => s[j] \in SpaceChars

IsSinglePlaceholder(s) == \E o \in Occurrences(s) : OnlyPlaceholder(s, o)

RECURSIVE Interpolated(_, _, _)
\* s from position p on, each placeholder replaced by the text of its slot
Interpolated(s, p, sl) ==
    LET later == {o \in Occurrences(s) : o[1] >= p}
    IN  IF later = {} THEN SubSeq(s, p, Len(s))
        ELSE LET o == CHOOSE o1 \in later : \A o2 \in later : o1[1] <= o2[1]
             IN  SubSeq(s, p, o[1] - 1)
                 \o TextOf(DictGet(sl, NameOf(s, o)))
                 \o Interpolated(s, o[1] + o[2] + 4, sl)

RECURSIVE CountRefs(_, _)
\* how often slot x is referenced in the string values of a template
CountRefs(t, x) ==
    CASE t.t = "str"  -> Cardinality({o \in Occurrences(t.s) : NameOf(t.s, o) = x})
      [] t.t = "dict" -> SumSeq([i \in 1..Len(t.items) |-> CountRefs(t.items[i].v, x)])
      [] t.t = "list" -> SumSeq([i \in 1..Len(t.items) |-> CountRefs(t.items[i], x)])
      [] OTHER -> 0

\* no string value of the template holds a placeholder
NoPlaceholder(t) == \A x \in SlotNames \cup {SlotZ} : CountRefs(t, x) = 0

\* the clipboard is as the last operation found it
ClipboardUntouched ==
    /\ slots = pre.slots
    /\ bytes_stored = pre.bytes_stored
    /\ usage_count = pre.usage_count

C8_Interpolation ==
    (/\ ret.op = "render" /\ ret.template.t = "str"
     /\ ~IsSinglePlaceholder(ret.template.s))
        => LET present == \A o \in Occurrences(ret.template.s) :
                              DictHas(pre.slots, NameOf(ret.template.s, o))
           IN  /\ ret.out.status = "ok" <=> present
               /\ present
                      => ret.out = Ok(PyStr(Interpolated(ret.template.s, 1, pre.slots)))

\* "{{x}}." rendered while x holds the integer 42 gives the string "42."
C8_Witness ==
    /\ ret.op = "render" /\ ret.template = TplPunct
    /\ DictHas(pre.slots, SlotX) /\ DictGet(pre.slots, SlotX) = ValInt
    /\ ret.out = Ok(PyStr(<<"4", "2", ".">>))

\* C9: rendering a template (string, mapping, sequence or scalar, nested) whose
\* string values hold no placeholder returns a value equal to the template and
\* leaves slots, byte sizes and use counts unchanged, whatever the clipboard holds.
C9_NoPlaceholderIdentity ==
    (ret.op = "render" /\ NoPlaceholder(ret.template))
        => (ret.out = Ok(ret.template) /\ ClipboardUntouched)

\* the nested placeholder-free tree rendered on a clipboard that holds both
\* slots, one of them used before
C9_Witness ==
    /\ ret.op = "render" /\ ret.template = TplTreePlain
    /\ Len(slots) = 2
    /\ \E i \in 1..Len(usage_count) : usage_count[i].v > 0
    /\ ret.out.status = "ok"

\* C10: a successful render of a template that references slot x n times (all
\* string values, full match or interpolation, repeats counted) raises x's use
\* count by exactly n and changes no slot value or byte size; hence a slot's
\* use count is always the number of successful lookups of it since its last set.
C10_UsageAccounting ==
    /\ (ret.op = "render" /\ ret.out.status = "ok")
           => /\ slots = pre.slots /\ bytes_stored = pre.bytes_stored
              /\ DictKeys(usage_count) = DictKeys(pre.usage_count)
              /\ \A i \in 1..Len(usage_count) :
                     usage_count[i].v
                         = pre.usage_count[i].v + CountRefs(ret.template, usage_count[i].k)
    /\ usage_count = lookups

\* "n={{x}} {{y1}}{{x}}" rendered: x counted twice, y1 once, on top of an
\* earlier use of y1
C10_Witness ==
    /\ ret.op = "render" /\ ret.template = TplMixed /\ ret.out.status = "ok"
    /\ DictGet(pre.usage_count, SlotX) = 0 /\ DictGet(usage_count, SlotX) = 2
    /\ DictGet(pre.usage_count, SlotY) = 1 /\ DictGet(usage_count, SlotY) = 2

\* the template whose strings the last operation rendered: the template of a
\* render, the parameters of a template_invoke
RenderedTemplate ==
    IF ret.op = "render" THEN ret.template
    ELSE IF DictHas(ret.template.items, InvokeKey.tool) /\ DictHas(ret.template.items, InvokeKey.parameters)
    THEN DictGet(ret.template.items, InvokeKey.parameters)
    ELSE PyNone

\* the slots the rendered template references that the clipboard lacked
AbsentRefs ==
    {x \in SlotNames \cup {SlotZ} :
        CountRefs(RenderedTemplate, x) > 0 /\ ~DictHas(pre.slots, x)}

\* C11: when a template references a slot absent from the clipboard, render
\* fails with a KeyError that names an absent referenced slot and yields no
\* value; execute_template_invoke then makes no call of the tool executor.
C11_AbsentSlotAborts ==
    (ret.op \in {"render", "template_invoke"} /\ AbsentRefs # {}) =>
        /\ ret.out.status = "KeyError"
        /\ ret.out.info.slot \in AbsentRefs
        /\ ret.out.value = PyNone
        /\ ret.op = "template_invoke" => ret.calls = <<>>

\* a template_invoke of {"tool": "create_file", "parameters": ["{{y1}}",
\* "{{z}}"]} with y1 present and z absent: y1 was resolved, z failed, no call
C11_Witness ==
    /\ ret.op = "template_invoke"
    /\ ret.template = InvokeTemplate(ToolCreateFile, TplListAbsent)
    /\ DictHas(pre.slots, SlotY)
    /\ ret.out.status = "KeyError" /\ ret.out.info.slot = SlotZ
    /\ ret.calls = <<>>

\* what a mapping d holds for name n: its value, or nothing
EntryOf(d, n) == IF DictHas(d, n) THEN <<DictGet(d, n)>> ELSE <<>>

\* every slot but n has the value, size and use count the last operation found
OtherSlotsUntouched(n) ==
    \A m \in (ClipAsked \cup SlotNames) \ {n} :
        /\ EntryOf(slots, m) = EntryOf(pre.slots, m)
        /\ EntryOf(bytes_stored, m) = EntryOf(pre.bytes_stored, m)
        /\ EntryOf(usage_count, m) = EntryOf(pre.usage_count, m)

\* C12: set(slot, value), on a new, an existing or a cleared slot, installs
\* the value, makes the slot's size the length of a string value or else of
\* the value's text, makes its use count 0, and leaves every other slot's
\* value, size and use count as they were.
C12_SetFrame ==
    ret.op = "set" =>
        /\ ClipGet(slots, ret.slot) = Ok(ret.value)
        /\ DictGet(bytes_stored, ret.slot)
               = IF ret.value.t = "str" THEN Len(ret.value.s)
                 ELSE Len(TextOf(ret.value))
        /\ DictGet(usage_count, ret.slot) = 0
        /\ OtherSlotsUntouched(ret.slot)

\* x, used twice and then cleared, is set again to [False, 's'], whose text
\* "[False, 's']" has 12 characters, while the slot "" keeps its use
C12_Witness ==
    /\ ret.op = "set" /\ ret.slot = SlotX /\ ret.value = ValList
    /\ ~DictHas(pre.slots, SlotX)
    /\ EntryOf(pre.usage_count, SlotX) = <<2>>
    /\ EntryOf(bytes_stored, SlotX) = <<12>>
    /\ EntryOf(usage_count, SlotX) = <<0>>
    /\ DictHas(slots, SlotEmpty) /\ EntryOf(usage_count, SlotEmpty) = <<1>>

\* the size and the use count of a slot the clipboard holds
ByteSize(n) == DictGet(bytes_stored, n)
UseCount(n) == DictGet(usage_count, n)

\* the sum of f over the slots the clipboard holds
SumOverSlots(f(_)) == SumSeq([i \in 1..Len(slots) |-> f(slots[i].k)])

SizeTimesUse(n) == ByteSize(n) * UseCount(n)
ReferenceCost(n) == (4 + Len(n)) * UseCount(n)

\* the clipboard the last operation found
PreClipboard ==
    [slots |-> pre.slots, bytes_stored |-> pre.bytes_stored,
     usage_count |-> pre.usage_count]

\* C13: the estimate reports as bytes_stored the sum of the sizes of exactly
\* the slots the clipboard holds, and as bytes_substituted the sum over those
\* slots of size times use count; a cleared slot contributes nothing.
C13_EstimateOverCurrentSlots ==
    ret.op = "estimate" =>
        /\ ret.out.value.bytes_stored = SumOverSlots(ByteSize)
        /\ ret.out.value.bytes_substituted = SumOverSlots(SizeTimesUse)

C15_EstimateArithmetic ==
    ret.op = "estimate" =>
        LET e == ret.out.value
        IN  /\ e.estimated_tokens_saved = e.bytes_substituted \div 4
            /\ e.reference_overhead_tokens = SumOverSlots(ReferenceCost) \div 4
            /\ e.net_tokens_saved = e.estimated_tokens_saved - e.reference_overhead_tokens
            /\ e.reference_overhead_tokens > e.estimated_tokens_saved
                   => e.net_tokens_saved < 0

\* C16: record_usage of a slot the clipboard does not hold, never set or set
\* and cleared, raises nothing and changes nothing: no use count changes and
\* the estimate stays what it was.
C16_RecordUsageUnknownNoOp ==
    (ret.op = "record_usage" /\ ~ClipHas(pre.slots, ret.slot)) =>
        /\ ret.out = Ok(PyNone)
        /\ ClipboardUntouched
        /\ GetTokenSavingsEstimate(Clipboard) = GetTokenSavingsEstimate(PreClipboard)

\* the names and values of a mapping, as a set of pairs
PairsOf(d) == {<<d[i].k, d[i].v>> : i \in 1..Len(d)}

\* C17: clear(name), for any slot name, the empty string included, removes
\* exactly that slot if it is present and leaves every other slot with its
\* value; clear() without a name removes all slots; neither raises, also when
\* the named slot is absent.
C17_ClearRemovesNamedSlot ==
    ret.op = "clear" =>
        /\ ret.out = Ok(PyNone)
        /\ ret.slot.t = "str" =>
               PairsOf(slots) = {p \in PairsOf(pre.slots) : p[1] # ret.slot.s}
        /\ ret.slot.t = "none" => slots = <<>>

\* C18: get(slot) returns the value of the most recent set of the slot when
\* neither a clear of it nor a clear of all slots came after, has(slot) is
\* true in exactly that case, and get otherwise fails with a KeyError that
\* lists exactly the names of the slots present; get and has change nothing.
C18_GetAndHas ==
    /\ ret.op = "clipboard_get" =>
           /\ DictHas(live, ret.slot) => ret.out = Ok(DictGet(live, ret.slot))
           /\ ~DictHas(live, ret.slot) =>
                  /\ ret.out.status = "KeyError"
                  /\ Range(ret.out.info.available)
                         = {n \in ClipAsked : ClipHas(slots, n)}
           /\ ClipboardUntouched
    /\ ret.op = "has" =>
           /\ ret.out = Ok(PyBool(DictHas(live, ret.slot)))
           /\ ClipboardUntouched

\* what rendering the string s gives when every slot it references is in sl:
\* the slot's value for a lone placeholder, else the interpolated text
StringRendering(s, sl) ==
    IF IsSinglePlaceholder(s)
    THEN DictGet(sl, NameOf(s, CHOOSE o \in Occurrences(s) : OnlyPlaceholder(s, o)))
    ELSE PyStr(Interpolated(s, 1, sl))

RECURSIVE RenderedAs(_, _, _)
\* v is the rendering of the template t: a mapping with the keys of t in the
\* order of t, a sequence of the length of t, each part the rendering of the
\* part of t in its place; a number, a boolean or None is t itself
RenderedAs(t, v, sl) ==
    CASE t.t = "dict" ->
             /\ v.t = "dict" /\ Len(v.items) = Len(t.items)
             /\ \A i \in 1..Len(t.items) :
                    /\ v.items[i].k = t.items[i].k
                    /\ RenderedAs(t.items[i].v, v.items[i].v, sl)
      [] t.t = "list" ->
             /\ v.t = "list" /\ Len(v.items) = Len(t.items)
             /\ \A i \in 1..Len(t.items) : RenderedAs(t.items[i], v.items[i], sl)
      [] t.t = "str" -> v = StringRendering(t.s, sl)
      [] OTHER -> v = t

\* C19: a mapping renders to a mapping with the same keys in the same order,
\* each value the rendering of the template's value and no key substituted;
\* a sequence renders to a sequence of the same length, element by element;
\* numbers, booleans and None come back unchanged.
C19_StructureIsKept ==
    (ret.op = "render" /\ ret.template.t # "str" /\ ret.out.status = "ok")
        => RenderedAs(ret.template, ret.out.value, pre.slots)

\* {"b": "{{x}}", "{{y1}}": ["n{{y1}}", False], "a": 5} rendered with x a list
\* and y1 = 42: keys b, {{y1}}, a in that order, the key {{y1}} kept as it is
C19_Witness ==
    /\ ret.op = "render" /\ ret.template = TplPairs
    /\ ClipGet(pre.slots, SlotX) = Ok(ValList) /\ ClipGet(pre.slots, SlotY) = Ok(ValInt)
    /\ ret.out = Ok(PyDict(<<
           [k |-> <<"b">>, v |-> ValList],
           [k |-> Ph(SlotY), v |-> PyList(<<PyStr(<<"n", "4", "2">>), PyBool(FALSE)>>)],
           [k |-> <<"a">>, v |-> PyInt(5)]>>))

\* the fields of the last copy request
Requested(key) == DictHas(ret.args.items, key)
Field(key) == DictGet(ret.args.items, key)

\* the text of the result, then the extraction f on it
TextExtraction(result, f(_)) ==
    LET text == GetTextContent(result)
    IN  IF text.status # "ok" THEN text ELSE f(text.value.s)

\* the stored result the last copy request refers to
CopySource == ResultStoreGet(pre.by_tool, pre.last, Field(CopyKey.source).s)

\* the copy did what the one extraction x and no other does: it fails as x
\* fails, or stores the value of x and reports the method
CopyApplied(x, method) ==
    /\ ret.out.status = x.status
    /\ x.status = "ok" =>
           /\ ClipGet(slots, Field(CopyKey.slot).s) = Ok(x.value)
           /\ DictGet(ret.out.value.items, CopyKey.method) = PyStr(method)

\* C20: of the extraction fields a copy request carries exactly one is
\* applied: json_path if present, whatever else is; else pattern; else the
\* line range; and the full text of the result when none is present.
C20_ExtractionPrecedence ==
    (ret.op = "copy" /\ CopySource.status = "ok") =>
        LET result == CopySource.value.result
            ByPattern(text) == ExtractByPattern(text, Field(CopyKey.pattern).s)
            ByLines(text) ==
                ExtractByLines(text, Field(CopyKey.start_line).n, Field(CopyKey.end_line).n)
            HasLines == Requested(CopyKey.start_line) /\ Requested(CopyKey.end_line)
        IN  /\ Requested(CopyKey.json_path) =>
                   CopyApplied(ExtractByJsonPath(result, Field(CopyKey.json_path).s),
                               MethodJsonPath(Field(CopyKey.json_path).s))
            /\ (~Requested(CopyKey.json_path) /\ Requested(CopyKey.pattern)) =>
                   CopyApplied(TextExtraction(result, ByPattern),
                               MethodPattern(Field(CopyKey.pattern).s))
            /\ (~Requested(CopyKey.json_path) /\ ~Requested(CopyKey.pattern) /\ HasLines) =>
                   CopyApplied(TextExtraction(result, ByLines),
                               MethodLines(Field(CopyKey.start_line), Field(CopyKey.end_line)))
            /\ (~Requested(CopyKey.json_path) /\ ~Requested(CopyKey.pattern) /\ ~HasLines) =>
                   CopyApplied(GetTextContent(result), MethodFull)

\* a copy from {"content": "ab\ncd", "n": [7, "cd"]} with json_path "n.1",
\* pattern "b" and lines 1-1 all present stores "cd": the pattern alone gives
\* "b", the line range "ab", the full text "ab\ncd"
C20_Witness ==
    /\ ret.op = "copy" /\ ret.out.status = "ok"
    /\ CopySource.status = "ok" /\ CopySource.value.result = ResultDoc
    /\ Requested(CopyKey.json_path) /\ Field(CopyKey.json_path) = PyStr(<<"n", ".", "1">>)
    /\ Requested(CopyKey.pattern) /\ Field(CopyKey.pattern) = PyStr(<<"b">>)
    /\ Requested(CopyKey.start_line) /\ Requested(CopyKey.end_line)
    /\ ClipGet(slots, SlotX) = Ok(PyStr(<<"c", "d">>))
    /\ DictGet(ret.out.value.items, CopyKey.method)
           = PyStr(<<"j", "s", "o", "n", "_", "p", "a", "t", "h", "=", "n", ".", "1">>)

\* x brought into 1..n
Clamp(x, n) == IF x < 1 THEN 1 ELSE IF x > n THEN n ELSE x

\* C21: line-range extraction never raises and clamps both line numbers to
\* 1..n, n being the number of lines: the result is the lines
\* clamp(start)..clamp(end), joined by line breaks.
C21_LinesClamped ==
    ret.op = "extract_by_lines" =>
        LET lines == Split(ret.text, "\n")
            n == Len(lines)
        IN  ret.out = Ok(PyStr(Join(SubSeq(lines, Clamp(ret.start, n),
                                           Clamp(ret.end, n)), "\n")))

RECURSIVE Resolved(_, _, _)
\* the walk of a path from segment p on: a segment is a key of a mapping, or
\* a position of a sequence written as a non-negative integer literal below
\* its length; the first segment that is neither ends the walk with NotFound
Resolved(node, parts, p) ==
    IF p > Len(parts) THEN Ok(node)
    ELSE IF node.t = "dict" /\ DictHas(node.items, parts[p])
    THEN Resolved(DictGet(node.items, parts[p]), parts, p + 1)
    ELSE IF /\ node.t = "list" /\ IsDecimalLiteral(parts[p])
            /\ ParseNat(parts[p]) < Len(node.items)
    THEN Resolved(node.items[ParseNat(parts[p]) + 1], parts, p + 1)
    ELSE Raise("KeyError", <<>>)

\* C22: json_path extraction walks the value segment by segment and fails
\* with KeyError, the error of a missing slot or result, at the first segment
\* it cannot resolve, a position at or beyond a sequence's length included.
C22_PathFailsWithKeyError ==
    ret.op = "extract_by_json_path" =>
        LET want == Resolved(ret.result, Split(ret.path, "."), 1)
        IN  /\ ret.out.status = want.status
            /\ want.status = "ok" => ret.out.value = want.value

\* the text a result is read as: a str itself, else the text of the first
\* of content, text, data that the mapping holds, else the text of the whole
CoercedText(result) ==
    IF result.t = "str" THEN result.s
    ELSE IF DictHas(result.items, CopyKey.content)
    THEN TextOf(DictGet(result.items, CopyKey.content))
    ELSE IF DictHas(result.items, CopyKey.text)
    THEN TextOf(DictGet(result.items, CopyKey.text))
    ELSE IF DictHas(result.items, CopyKey.data)
    THEN TextOf(DictGet(result.items, CopyKey.data))
    ELSE TextOf(result)

\* C23: the text used by full-text, pattern and line-range extraction is a
\* str result as it is, else for a mapping the text of the first key present
\* among content, text, data in that order, else the text of the whole
\* value; it is always a string.
C23_TextCoercion ==
    ret.op = "get_text_content" =>
        /\ ret.out.status = "ok" /\ ret.out.value.t = "str"
        /\ ret.out.value.s = CoercedText(ret.result)

\* {"data": "d", "text": "t", "content": "c"} is read as "c", though content
\* is the last key of the mapping
C23_Witness ==
    /\ ret.op = "get_text_content"
    /\ ret.result.t = "dict" /\ Len(ret.result.items) = 3
    /\ ret.result.items[1].k = CopyKey.data /\ ret.result.items[3].k = CopyKey.content
    /\ ret.out = Ok(PyStr(<<"c">>))

----------------------------------------------------------------------------
(* C24: a tool call whose executor raises *)

\* the last operation was a tool call in which execute_tool ran a known tool
\* and the tool raised
ExecutorRaised ==
    /\ ret.op = "tool_call"
    /\ ret.calls # <<>>
    /\ ret.out.status # "ok"

\* C24: when the tool executor raises during a tool call, direct or through
\* template_invoke, the exception reaches the caller as it was raised and
\* the agent's tool-call log has grown by one record for that call, a record
\* that has no result
C24_FailedCallRecorded ==
    ExecutorRaised =>
        /\ ret.out = ret.env
        /\ Len(tool_calls) = Len(pre.tool_calls) + 1
        /\ SubSeq(tool_calls, 1, Len(pre.tool_calls)) = pre.tool_calls
        /\ tool_calls[Len(tool_calls)].tool = ret.tool
        /\ "result" \notin DOMAIN tool_calls[Len(tool_calls)]

----------------------------------------------------------------------------
(* C25: what template_invoke returns *)

\* {"tool_executed": tool, "substitutions_applied": True, "result": result}
Wrapper(tool, result) ==
    PyDict(<<[k |-> InvokeKey.tool_executed, v |-> PyStr(tool)],
             [k |-> InvokeKey.substitutions_applied, v |-> PyBool(TRUE)],
             [k |-> InvokeKey.result, v |-> result]>>)

\* {"error": "Unknown tool: <tool>"}
UnknownToolError(tool) ==
    PyDict(<<[k |-> <<"e", "r", "r", "o", "r">>,
              v |-> PyStr(<<"U", "n", "k", "n", "o", "w", "n", " ",
                            "t", "o", "o", "l", ":", " ">> \o tool)]>>)

\* the tool the template of the last template_invoke names
InvokedTool == DictGet(ret.template.items, InvokeKey.tool).s

----------------------------------------------------------------------------
(* C26: the references list_sources gives resolve *)

\* the entries list_sources lists, in the order it lists them: name by name
\* in order of first appearance, each name's entries by ordinal
ListedEntries ==
    LET names == FirstAppearance(hist)
    IN  Concat([j \in 1..Len(names) |-> StoredUnder(names[j])])

\* C26: every reference list_sources returns resolves: get of the j-th
\* listed reference succeeds and returns the entry, of the tool name and
\* ordinal, that the reference was listed for, whatever the tool names are
C26_ListedRefsResolve ==
    ret.op = "list_sources" =>
        /\ Len(ret.out.value.items) = Len(ListedEntries)
        /\ \A j \in 1..Len(ListedEntries) :
               ResultStoreGet(by_tool, last, ret.out.value.items[j]) = Ok(ListedEntries[j])

----------------------------------------------------------------------------
(* C27: a copy that fails *)

\* C27: a copy request that fails, because its source reference does not
\* resolve, a segment of its json_path does not resolve or its pattern does
\* not match, leaves the clipboard exactly as it was: the same slots with the
\* same values, the same byte sizes and the same use counts; a source that
\* does not resolve fails the copy with the store's own failure
C27_FailedCopyLeavesClipboard ==
    ret.op = "copy" =>
        /\ CopySource.status # "ok" => ret.out = CopySource
        /\ ret.out.status # "ok" => ClipboardUntouched /\ StoreUntouched

\* slot x held a value, and a copy into x from a source that resolves failed:
\* on a pattern that does not match
C27_Witness ==
    /\ ret.op = "copy" /\ ret.out.status # "ok"
    /\ CopySource.status = "ok"
    /\ ~Requested(CopyKey.json_path)
    /\ Requested(CopyKey.pattern) /\ Field(CopyKey.pattern) = PyStr(<<"z", "z">>)
    /\ Field(CopyKey.slot) = PyStr(SlotX)
    /\ DictHas(pre.slots, SlotX)

----------------------------------------------------------------------------
(* C28: which tool calls reach the result store *)

\* the entries of the records of the tool-call log that are no copy and no
\* template_invoke, in call order
DirectEntries ==
    LET Direct(c) == ~c.used_clipboard
        direct == SelectSeq(tool_calls, Direct)
    IN  [i \in 1..Len(direct) |-> Entry(direct[i].tool, direct[i].result)]

\* the entries among es stored under name, in order
EntriesOf(es, name) ==
    LET Named(e) == e.tool = name
    IN  SelectSeq(es, Named)

----------------------------------------------------------------------------
(* C29: substitution is single-pass *)

\* a slot the rendered template references held, when the render began, a
\* text that itself holds a placeholder
RefersToPlaceholderText ==
    \E x \in SlotNames :
        /\ CountRefs(ret.template, x) > 0
        /\ DictHas(pre.slots, x)
        /\ DictGet(pre.slots, x).t = "str"
        /\ Occurrences(DictGet(pre.slots, x).s) # {}

\* C29: substitution is single-pass: when a slot the template references
\* holds a text with a placeholder such as {{y1}} in it, and the slots the
\* template itself references are all present, the render succeeds and puts
\* the value in as it is; the placeholder inside the value is not expanded,
\* its slot is not looked up, so no use count rises beyond the template's own
\* references and no KeyError is raised when that slot is absent
C29_SinglePass ==
    (ret.op = "render" /\ RefersToPlaceholderText /\ AbsentRefs = {}) =>
        /\ ret.out.status = "ok"
        /\ RenderedAs(ret.template, ret.out.value, pre.slots)
        /\ slots = pre.slots
        /\ DictKeys(usage_count) = DictKeys(pre.usage_count)
        /\ \A i \in 1..Len(usage_count) :
               usage_count[i].v
                   = pre.usage_count[i].v + CountRefs(ret.template, usage_count[i].k)

\* x held "a{{y1}}" and there was no slot y1: "{{x}}." rendered to "a{{y1}}."
C29_Witness ==
    /\ ret.op = "render" /\ ret.template = TplPunct
    /\ EntryOf(pre.slots, SlotX) = <<ValText>>
    /\ ~DictHas(pre.slots, SlotY)
    /\ ret.out = Ok(PyStr(<<"a", "{", "{", "y", "1", "}", "}", ".">>))
    /\ ~DictHas(usage_count, SlotY)

----------------------------------------------------------------------------
(* C30: a render that fails keeps the use counts it has recorded *)

RECURSIVE RefsFrom(_, _)
\* the slot names of the placeholders of s from position p on, left to right
RefsFrom(s, p) ==
    LET later == {o \in Occurrences(s) : o[1] >= p}
    IN  IF later = {} THEN <<>>
        ELSE LET o == CHOOSE o1 \in later : \A o2 \in later : o1[1] <= o2[1]
             IN  <<NameOf(s, o)>> \o RefsFrom(s, o[1] + o[2] + 4)

RECURSIVE RefsInOrder(_)
\* the slot names a template references, in the order of the walk: the values
\* of a mapping in its order, the elements of a sequence, the placeholders
\* of a string from left to right
RefsInOrder(t) ==
    CASE t.t = "str"  -> RefsFrom(t.s, 1)
      [] t.t = "dict" -> Concat([i \in 1..Len(t.items) |-> RefsInOrder(t.items[i].v)])
      [] t.t = "list" -> Concat([i \in 1..Len(t.items) |-> RefsInOrder(t.items[i])])
      [] OTHER -> <<>>

\* the references walked before the first one to a slot the clipboard lacked
ResolvedBeforeFailure ==
    LET refs == RefsInOrder(ret.template)
        absent == {j \in 1..Len(refs) : ~DictHas(pre.slots, refs[j])}
        first == CHOOSE j \in absent : \A j2 \in absent : j <= j2
    IN  SubSeq(refs, 1, first - 1)

\* C30: a render is not atomic in its usage accounting: when it aborts with
\* KeyError on a slot that is not there, every slot's use count is the count
\* before the render plus the number of placeholders for it resolved earlier
\* in the walk, nothing rolled back, while the slots' values and byte sizes
\* are those from before the render
C30_FailedRenderKeepsCounts ==
    (ret.op = "render" /\ ret.out.status = "KeyError") =>
        /\ slots = pre.slots
        /\ bytes_stored = pre.bytes_stored
        /\ DictKeys(usage_count) = DictKeys(pre.usage_count)
        /\ \A i \in 1..Len(usage_count) :
               usage_count[i].v
                   = pre.usage_count[i].v + CountIn(ResolvedBeforeFailure, usage_count[i].k)

\* {"b": "{{x}}", "{{y1}}": ["n{{y1}}", False], "a": 5} rendered with x
\* present and y1 absent: the render failed on y1 and x's use is counted
C30_Witness ==
    /\ ret.op = "render" /\ ret.template = TplPairs
    /\ ret.out.status = "KeyError" /\ ret.out.info.slot = SlotY
    /\ DictHas(pre.slots, SlotX)
    /\ DictGet(usage_count, SlotX) = DictGet(pre.usage_count, SlotX) + 1

----------------------------------------------------------------------------
(* C31: the agent loop *)

\* the tool_use blocks among the first n blocks of a response, in order
ToolUses(content, n) ==
    LET IsToolUse(b) == b.type = "tool_use"
    IN  SelectSeq(SubSeq(content, 1, n), IsToolUse)

\* run is over: it has returned or an exception has left it
RunOver == run.pc \in {"returned", "raised"}

\* what holds of a run at every moment
RunSafe ==
    LET handled == ToolUses(run.content, run.pos - 1)
        k == Len(handled)
        n == Len(tool_calls)
    IN  \* at most max_turns model calls
        /\ run.model_calls <= MaxTurns
        /\ run.model_calls = run.turn
        \* the loop goes on to another model call only after a response with a
        \* tool call, and run returns only after a response without one or with
        \* the turns used up
        /\ (run.pc = "call" /\ run.turn > 0) =>
               /\ ToolUses(run.content, Len(run.content)) # <<>>
               /\ run.pos = Len(run.content) + 1
        /\ run.pc = "returned" =>
               /\ run.pos = Len(run.content) + 1
               /\ ToolUses(run.content, Len(run.content)) = <<>> \/ run.turn = MaxTurns
               /\ run.result = Ok(PyStr(FinalText(run.content)))
        \* the tool calls made in this turn are those of the blocks handled so
        \* far, one call each, in the order of the response
        /\ run.pos <= Len(run.content) + 1
        /\ Len(run.tool_results) = k
        /\ n >= k
        /\ \A i \in 1..k :
               /\ tool_calls[n - k + i].tool = handled[i].name
               /\ tool_calls[n - k + i].input = handled[i].input
               /\ tool_calls[n - k + i].result = run.tool_results[i]
        \* the first exception ends the run: it is the run's outcome, and the
        \* block that raised is the last one touched
        /\ run.pc = "raised" =>
               /\ run.result.status \notin {"ok", "running"}
               /\ ret.op = "step" =>
                      /\ run.result = ret.out
                      /\ run.pos <= Len(run.content)
                      /\ ret.block = <<run.content[run.pos]>>
                      /\ run.content[run.pos].type = "tool_use"
                      /\ tool_calls = pre.tool_calls
               /\ ret.op = "turn" => run.result = ret.response
        /\ run.pc \in {"call", "blocks"} => run.result.status = "running"

\* C31: the agent loop terminates: run makes at most 20 model calls, stops
\* at the first response without a tool call, makes the tool calls of a
\* response one at a time in the order of the response, and ends at the first
\* tool call that raises; once over, nothing more happens
C31_RunTerminates ==
    /\ []RunSafe
    /\ [][~RunOver]_vars
    /\ <>RunOver

\* run returned after twenty model calls, the last response still asking for
\* tools, all of which ran
C31_Witness ==
    /\ run.pc = "returned"
    /\ run.model_calls = MaxTurns
    /\ Len(ToolUses(run.content, Len(run.content))) = 3
    /\ Len(run.tool_results) = 3
    /\ Len(tool_calls) = 3 * MaxTurns

========================================================================
